---------------------------- MODULE Spec2Model ----------------------------
(***************************************************************************)
(* Transaction extraction and temporal normalisation of BankExtOmieERP:    *)
(* the Itau and Inter statement extractors (itau_extractor.py,             *)
(* inter_extractor.py) and the deduplicator of BankOmieApp.py.             *)
(*                                                                         *)
(* Text is modelled as TLA+ strings, read character by character with      *)
(* SubSeq; every regular expression of the source is an operator that      *)
(* computes what Python's re computes for it.  None is the string "None".  *)
(***************************************************************************)
EXTENDS Integers, Sequences, FiniteSets, TLC

None == "None"

---------------------------------------------------------------------------
(* Characters and strings.                                                 *)

Ch(s, k) == SubSeq(s, k, k)

Digit == {"0", "1", "2", "3", "4", "5", "6", "7", "8", "9"}

DigitVal(c) ==
    CASE c = "0" -> 0 [] c = "1" -> 1 [] c = "2" -> 2 [] c = "3" -> 3
      [] c = "4" -> 4 [] c = "5" -> 5 [] c = "6" -> 6 [] c = "7" -> 7
      [] c = "8" -> 8 [] c = "9" -> 9

\* \s of Python's re, as far as the texts here hold it
Space == {" ", "\t", "\n"}

LowerAlpha == "abcdefghijklmnopqrstuvwxyzãçéõíáê"
UpperAlpha == "ABCDEFGHIJKLMNOPQRSTUVWXYZÃÇÉÕÍÁÊ"

\* the characters of the two alphabets, and each one's counterpart
LowerSet == {Ch(LowerAlpha, k) : k \in 1..Len(LowerAlpha)}
UpperSet == {Ch(UpperAlpha, k) : k \in 1..Len(UpperAlpha)}

ToUpper ==
    [c \in LowerSet |->
        Ch(UpperAlpha, CHOOSE k \in 1..Len(LowerAlpha) : Ch(LowerAlpha, k) = c)]

ToLower ==
    [c \in UpperSet |->
        Ch(LowerAlpha, CHOOSE k \in 1..Len(UpperAlpha) : Ch(UpperAlpha, k) = c)]

IsLower(c) == c \in LowerSet
IsUpper(c) == c \in UpperSet

\* [A-Z] of an re without IGNORECASE: the ASCII capitals only
AsciiUpperSet == {Ch(UpperAlpha, k) : k \in 1..26}
IsAsciiUpper(c) == c \in AsciiUpperSet

\* \w of Python's re
WordSet == Digit \cup LowerSet \cup UpperSet \cup {"_"}
IsWord(c) == c \in WordSet

UpperCh(c) == IF c \in LowerSet THEN ToUpper[c] ELSE c

LowerCh(c) == IF c \in UpperSet THEN ToLower[c] ELSE c

RECURSIVE Upper(_)
\* str.upper()
Upper(s) == IF s = "" THEN "" ELSE UpperCh(Ch(s, 1)) \o Upper(SubSeq(s, 2, Len(s)))

RECURSIVE Lower(_)
\* str.lower()
Lower(s) == IF s = "" THEN "" ELSE LowerCh(Ch(s, 1)) \o Lower(SubSeq(s, 2, Len(s)))

SetMin(S) == CHOOSE x \in S : \A y \in S : x <= y
SetMax(S) == CHOOSE x \in S : \A y \in S : x >= y

\* the leftmost of a set of positions, 0 when it has none
Leftmost(hits) == IF hits = {} THEN 0 ELSE SetMin(hits)

\* s[a:b] of Python with 1-based inclusive bounds
Sub(s, a, b) == SubSeq(s, a, b)
From(s, a) == SubSeq(s, a, Len(s))

\* str.strip()
Strip(s) ==
    LET keep == {k \in 1..Len(s) : Ch(s, k) \notin Space}
    IN  IF keep = {} THEN "" ELSE SubSeq(s, SetMin(keep), SetMax(keep))

\* s[k:].startswith(sub), k 1-based
StartsAt(s, k, sub) == k + Len(sub) - 1 <= Len(s) /\ SubSeq(s, k, k + Len(sub) - 1) = sub

\* sub in s
Contains(s, sub) == \E k \in 1..(Len(s) + 1) : StartsAt(s, k, sub)

EndsWith(s, sub) == Len(sub) <= Len(s) /\ From(s, Len(s) - Len(sub) + 1) = sub

AllIn(s, a, b, class) == \A k \in a..b : Ch(s, k) \in class

RECURSIVE RemoveChar(_, _)
\* s.replace(c, '') for a one-character c
RemoveChar(s, c) ==
    IF s = "" THEN ""
    ELSE (IF Ch(s, 1) = c THEN "" ELSE Ch(s, 1)) \o RemoveChar(From(s, 2), c)

RECURSIVE ReplaceChar(_, _, _)
\* s.replace(c, d) for one-character c and d
ReplaceChar(s, c, d) ==
    IF s = "" THEN ""
    ELSE (IF Ch(s, 1) = c THEN d ELSE Ch(s, 1)) \o ReplaceChar(From(s, 2), c, d)

Count(s, c) == Cardinality({k \in 1..Len(s) : Ch(s, k) = c})

\* zfill(2)
ZFill2(s) == IF Len(s) = 0 THEN "00" ELSE IF Len(s) = 1 THEN "0" \o s ELSE s

RECURSIVE DigitsValue(_)
\* the number a string of digits writes, other characters skipped
DigitsValue(s) ==
    IF s = "" THEN 0
    ELSE LET c == Ch(s, Len(s))
             rest == DigitsValue(Sub(s, 1, Len(s) - 1))
         IN  IF c \in Digit THEN 10 * rest + DigitVal(c) ELSE rest

\* \d{2}/\d{2} at position k
IsDDMMAt(s, k) ==
    /\ k + 4 <= Len(s)
    /\ Ch(s, k) \in Digit /\ Ch(s, k + 1) \in Digit
    /\ Ch(s, k + 2) = "/"
    /\ Ch(s, k + 3) \in Digit /\ Ch(s, k + 4) \in Digit

\* \d{2}/\d{2}/\d{4} at position k
IsDDMMYYYYAt(s, k) ==
    /\ IsDDMMAt(s, k)
    /\ k + 9 <= Len(s)
    /\ Ch(s, k + 5) = "/"
    /\ AllIn(s, k + 6, k + 9, Digit)

---------------------------------------------------------------------------
(* Amounts.  A float is kept exactly as <<mantissa, decimals>>, trailing   *)
(* zeros of the fraction dropped, so that two floats are equal exactly     *)
(* when their pairs are.                                                   *)

RECURSIVE Normal(_, _)
Normal(m, e) == IF e > 0 /\ m % 10 = 0 THEN Normal(m \div 10, e - 1) ELSE <<m, e>>

Zero == <<0, 0>>

\* not (amount <= 0)
Positive(amount) == amount[1] > 0

\* float(body) for an unsigned body whose dots stand at the positions dots
FloatWithDots(body, dots) ==
    IF /\ AllIn(body, 1, Len(body), Digit \cup {"."})
       /\ Cardinality(dots) <= 1
       /\ Len(body) > Cardinality(dots)
    THEN [ok |-> TRUE,
          value |-> Normal(DigitsValue(body),
                           IF dots = {} THEN 0 ELSE Len(body) - SetMax(dots))]
    ELSE [ok |-> FALSE, value |-> Zero]

FloatUnsigned(body) == FloatWithDots(body, {k \in 1..Len(body) : Ch(body, k) = "."})

\* -f
Negated(f) == [ok |-> f.ok, value |-> <<0 - f.value[1], f.value[2]>>]

\* float(t) for a t without blanks around it
FloatStripped(t) ==
    IF StartsAt(t, 1, "-") THEN Negated(FloatUnsigned(From(t, 2)))
    ELSE IF StartsAt(t, 1, "+") THEN FloatUnsigned(From(t, 2))
    ELSE FloatUnsigned(t)

\* float(s) for the strings the amount patterns can hand over: an optional
\* sign, digits and dots, blanks around them.  ok = FALSE is Python's
\* ValueError.
PyFloat(s) == FloatStripped(Strip(s))

\* amount > n for an integer n
GreaterThan(amount, n) == amount[1] > n * (10 ^ amount[2])

\* the separators of the Brazilian format: with a comma, dots are thousands
\* separators and the comma is the decimal point
BrazilianSeparators(s) ==
    IF Contains(s, ",")
    THEN IF Contains(s, ".")
         THEN ReplaceChar(RemoveChar(s, "."), ",", ".")
         ELSE ReplaceChar(s, ",", ".")
    ELSE s

\* the pair parse_amount returns: the amount with the type the sign gave, or
\* (0.0, 'unknown') after a ValueError
AmountAndType(f, transaction_type) ==
    IF f.ok THEN [amount |-> f.value, transaction_type |-> transaction_type]
    ELSE [amount |-> Zero, transaction_type |-> "unknown"]

\* ItauExtractor.parse_amount once is_credit is known
ItauParseSigned(amount_str, is_credit) ==
    AmountAndType(
        PyFloat(BrazilianSeparators(
            IF is_credit THEN Strip(RemoveChar(amount_str, "-")) ELSE amount_str)),
        IF is_credit THEN "credit" ELSE "debit")

\* ItauExtractor.parse_amount: (amount, transaction_type)
ItauParseAmount(amount_str) ==
    ItauParseSigned(amount_str, StartsAt(Strip(amount_str), 1, "-"))

\* InterExtractor.parse_amount once is_debit is known
InterParseSigned(amount_str, is_debit) ==
    AmountAndType(
        PyFloat(BrazilianSeparators(
            IF is_debit
            THEN Strip(RemoveChar(RemoveChar(RemoveChar(amount_str, "-"), "("), ")"))
            ELSE amount_str)),
        IF is_debit THEN "debit" ELSE "credit")

\* original_amount starts with '(' and ends with ')'
Parenthesised(original_amount) ==
    StartsAt(original_amount, 1, "(") /\ EndsWith(original_amount, ")")

\* InterExtractor.parse_amount: (amount, transaction_type)
InterParseAmount(amount_str) ==
    InterParseSigned(amount_str,
        StartsAt(Strip(amount_str), 1, "-") \/ Parenthesised(Strip(amount_str)))

---------------------------------------------------------------------------
(* Dates: datetime and timedelta of Python, proleptic Gregorian.           *)

IsLeap(y) == y % 4 = 0 /\ (y % 100 # 0 \/ y % 400 = 0)

DaysInMonth(y, m) ==
    IF m = 2 THEN (IF IsLeap(y) THEN 29 ELSE 28)
    ELSE IF m \in {4, 6, 9, 11} THEN 30 ELSE 31

\* datetime(y, m, d) raises ValueError unless this holds
ValidDate(y, m, d) ==
    /\ 1 <= y /\ y <= 9999
    /\ 1 <= m /\ m <= 12
    /\ 1 <= d /\ d <= DaysInMonth(y, m)

DaysBeforeYear(y) ==
    (y - 1) * 365 + ((y - 1) \div 4) - ((y - 1) \div 100) + ((y - 1) \div 400)

RECURSIVE DaysBeforeMonth(_, _)
DaysBeforeMonth(y, m) ==
    IF m <= 1 THEN 0 ELSE DaysBeforeMonth(y, m - 1) + DaysInMonth(y, m - 1)

\* date.toordinal()
ToOrdinal(y, m, d) == DaysBeforeYear(y) + DaysBeforeMonth(y, m) + d

\* date.fromordinal(n), n >= 1
FromOrdinal(n) ==
    LET y == CHOOSE c \in (n \div 366)..(n \div 365 + 1) :
                 c >= 1 /\ DaysBeforeYear(c) < n /\ n <= DaysBeforeYear(c + 1)
        m == CHOOSE c \in 1..12 :
                 /\ DaysBeforeYear(y) + DaysBeforeMonth(y, c) < n
                 /\ n <= DaysBeforeYear(y) + DaysBeforeMonth(y, c) + DaysInMonth(y, c)
    IN  [year |-> y, month |-> m, day |-> n - DaysBeforeYear(y) - DaysBeforeMonth(y, m)]

BILLING_OFFSET_DAYS == 30

\* billing_date, of which the month and the year are read
BillingDate(date) == [outcome |-> "ok", month |-> date.month, year |-> date.year]

\* date - timedelta(days=30) for the date of three numbers.  outcome: "ok",
\* "ValueError" (no such date) or "OverflowError" (the result lies before
\* 01/01/0001).
DaysBefore(year, month, day) ==
    IF ~ValidDate(year, month, day)
    THEN [outcome |-> "ValueError", month |-> 0, year |-> 0]
    ELSE IF ToOrdinal(year, month, day) - BILLING_OFFSET_DAYS < 1
    THEN [outcome |-> "OverflowError", month |-> 0, year |-> 0]
    ELSE BillingDate(FromOrdinal(ToOrdinal(year, month, day) - BILLING_OFFSET_DAYS))

\* datetime(int(year), int(month), int(day)) - timedelta(days=30) on the
\* three fields of a DD/MM/YYYY string
ThirtyDaysBefore(due_date) ==
    DaysBefore(DigitsValue(Sub(due_date, 7, 10)), DigitsValue(Sub(due_date, 4, 5)),
               DigitsValue(Sub(due_date, 1, 2)))

\* (billing_month, billing_year) of a billing date; (None, None) is month =
\* 0, year = 0, which no date has; raised = TRUE is the OverflowError the
\* except clause lets through
BillingPeriodOf(billing) ==
    [raised |-> billing.outcome = "OverflowError",
     month |-> billing.month, year |-> billing.year]

\* ItauExtractor.calculate_billing_period on a due date DD/MM/YYYY
calculate_billing_period(due_date) == BillingPeriodOf(ThirtyDaysBefore(due_date))

RECURSIVE IntStr(_)
\* str(n) for n >= 0
IntStr(n) ==
    IF n < 10 THEN Ch("0123456789", n + 1)
    ELSE IntStr(n \div 10) \o Ch("0123456789", (n % 10) + 1)

\* int(s) succeeds (no ValueError) on the tokens met here: digits only
IntOk(s) == s # "" /\ AllIn(s, 1, Len(s), Digit)

\* s.split('/') has exactly two parts
TwoParts(s) == Count(s, "/") = 1

SlashAt(s) == CHOOSE k \in 1..Len(s) : Ch(s, k) = "/"

\* \b\d{2}/\d{2}\b found in the description (re.search)
HasInstallmentPattern(description) ==
    \E k \in 1..Len(description) :
        /\ IsDDMMAt(description, k)
        /\ (k = 1 \/ ~IsWord(Ch(description, k - 1)))
        /\ (k + 4 = Len(description) \/ ~IsWord(Ch(description, k + 5)))

DEFAULT_THRESHOLD == 2
SENSITIVE_THRESHOLD == 1
HIGH_INSTALLMENT_TOTAL == 5000

\* another distance than the code's, against which the wrap-around is tried:
\* the plain difference of the two months
UnwrappedDiff(billing_month, trans_month) == billing_month - trans_month

\* the wrapped distance in months from the transaction's month back to the
\* billing month
MonthDiff(billing_month, trans_month) ==
    IF billing_month >= trans_month
    THEN billing_month - trans_month
    ELSE billing_month + (12 - trans_month)

\* the verdict of is_installment_transaction on the month distance.  raised =
\* TRUE: the OverflowError of the timedelta subtraction, which the except
\* (ValueError, IndexError) clause does not catch.
InstallmentByMonths(trans_month, billing, threshold) ==
    IF billing.outcome = "ValueError" THEN [raised |-> FALSE, value |-> FALSE]
    ELSE IF billing.outcome = "OverflowError" THEN [raised |-> TRUE, value |-> FALSE]
    ELSE [raised |-> FALSE, value |-> MonthDiff(billing.month, trans_month) >= threshold]

\* ItauExtractor.is_installment_transaction.  statement_date is None or a
\* DD/MM/YYYY string; installments_info is the total_future_installments
\* amount.
is_installment_transaction(description, date_str, statement_date, installments_info) ==
    IF description = "" THEN [raised |-> FALSE, value |-> FALSE]
    ELSE IF HasInstallmentPattern(description) THEN [raised |-> FALSE, value |-> TRUE]
    ELSE IF date_str = "" \/ statement_date = None THEN [raised |-> FALSE, value |-> FALSE]
    ELSE IF ~TwoParts(date_str) \/ ~IntOk(From(date_str, SlashAt(date_str) + 1))
         THEN [raised |-> FALSE, value |-> FALSE]
    ELSE InstallmentByMonths(
             DigitsValue(From(date_str, SlashAt(date_str) + 1)),
             ThirtyDaysBefore(statement_date),
             IF GreaterThan(installments_info, HIGH_INSTALLMENT_TOTAL)
             THEN SENSITIVE_THRESHOLD ELSE DEFAULT_THRESHOLD)

\* f"{day.zfill(2)}/{month.zfill(2)}/{use_year}" for the day and month of
\* date_str
DayMonthYear(date_str, use_year) ==
    ZFill2(Sub(date_str, 1, SlashAt(date_str) - 1)) \o "/"
    \o ZFill2(From(date_str, SlashAt(date_str) + 1)) \o "/" \o use_year

\* another dating rule than the code's, against which the installment rule
\* is tried: every line keeps its day and month, in the year of the clock
KeepLineDate(date_str, year, statement_date, description, installments_info, document_year, now_year) ==
    IF ~TwoParts(date_str) THEN date_str ELSE DayMonthYear(date_str, IntStr(now_year))

\* the year of the fallbacks: int(year), else int(self.document_year), else
\* the year of the clock; a ValueError of int() gives date_str back
FallbackYearDate(date_str, year, document_year, now_year) ==
    IF year # None /\ year # ""
    THEN (IF IntOk(year) THEN DayMonthYear(date_str, IntStr(DigitsValue(year)))
          ELSE date_str)
    ELSE IF document_year # None /\ document_year # ""
    THEN (IF IntOk(document_year)
          THEN DayMonthYear(date_str, IntStr(DigitsValue(document_year)))
          ELSE date_str)
    ELSE DayMonthYear(date_str, IntStr(now_year))

\* parse_itau_date once the line is classified and the billing period is
\* calculated
DateByRule(date_str, year, statement_date, document_year, now_year, is_installment, billing) ==
    IF is_installment.raised THEN date_str
    ELSE IF is_installment.value /\ statement_date # None
    THEN ZFill2(Sub(statement_date, 1, 2)) \o "/"
         \o ZFill2(Sub(statement_date, 4, 5)) \o "/" \o From(statement_date, 7)
    ELSE IF statement_date # None /\ billing.raised THEN date_str
    ELSE IF statement_date # None /\ billing.year # 0
    THEN DayMonthYear(date_str, IntStr(billing.year))
    ELSE FallbackYearDate(date_str, year, document_year, now_year)

\* ItauExtractor.parse_itau_date(date_str, year, statement_date, description,
\* installments_info); document_year is self.document_year and now_year is
\* datetime.now().year.  year, statement_date and document_year may be None.
\* Any exception inside is caught and gives date_str back.
parse_itau_date(date_str, year, statement_date, description, installments_info, document_year, now_year) ==
    IF ~TwoParts(date_str) THEN date_str
    ELSE DateByRule(date_str, year, statement_date, document_year, now_year,
             is_installment_transaction(description, date_str, statement_date,
                                        installments_info),
             IF statement_date = None THEN [raised |-> FALSE, month |-> 0, year |-> 0]
             ELSE calculate_billing_period(statement_date))

RECURSIVE SplitWs(_)
\* str.split(): the whitespace-separated words
SplitWs(s) ==
    LET t == Strip(s)
        ws == {k \in 1..Len(t) : Ch(t, k) \in Space}
    IN  IF t = "" THEN <<>>
        ELSE IF ws = {} THEN <<t>>
        ELSE <<Sub(t, 1, SetMin(ws) - 1)>> \o SplitWs(From(t, SetMin(ws) + 1))

\* the months table of parse_brazilian_date
MonthNumber(abbr) ==
    CASE abbr = "jan" -> "01" [] abbr = "fev" -> "02" [] abbr = "mar" -> "03"
      [] abbr = "abr" -> "04" [] abbr = "mai" -> "05" [] abbr = "jun" -> "06"
      [] abbr = "jul" -> "07" [] abbr = "ago" -> "08" [] abbr = "set" -> "09"
      [] abbr = "out" -> "10" [] abbr = "nov" -> "11" [] abbr = "dez" -> "12"
      [] OTHER -> None

\* the date of parse_brazilian_date once the month is looked up
DateOfMonth(date_str, day, month, year) ==
    IF month # None THEN day \o "/" \o month \o "/" \o year ELSE date_str

\* parse_brazilian_date on the words of the lowered date
DateOfParts(date_str, parts, document_year, now_year) ==
    IF Len(parts) >= 3 /\ (\E k \in 1..Len(parts) : parts[k] = "de")
    THEN DateOfMonth(date_str, ZFill2(parts[1]), MonthNumber(RemoveChar(parts[3], ".")),
             IF Len(parts) > 3 THEN parts[4]
             ELSE IF document_year # None /\ document_year # "" THEN document_year
             ELSE IntStr(now_year))
    ELSE date_str

\* InterExtractor.parse_brazilian_date; document_year is self.document_year
parse_brazilian_date(date_str, document_year, now_year) ==
    DateOfParts(date_str, SplitWs(Lower(date_str)), document_year, now_year)

---------------------------------------------------------------------------
(* Regular expressions.  A pattern whose pieces are literals, whitespace   *)
(* runs and digit groups is a sequence of elements matched left to right;  *)
(* a whitespace run is always followed by a piece that starts with a       *)
(* non-space character, so the greedy run is the only way to match.        *)

Lit(v) == [t |-> "lit", v |-> v]
WsPlus == [t |-> "ws+", v |-> ""]
WsStar == [t |-> "ws*", v |-> ""]
Digits4 == [t |-> "d4", v |-> ""]
DateYMD == [t |-> "date", v |-> ""]

\* a literal outside re.IGNORECASE
Exact(v) == [t |-> "exact", v |-> v]

\* [class]+, [class]{n} and [class]?; a run is always followed by a piece
\* that starts outside the class or by the end of the pattern
Plus(class) == [t |-> "plus", v |-> class]
Times(class, n) == [t |-> "times", v |-> class, n |-> n]
Opt(class) == [t |-> "opt", v |-> class]

\* (?:\+\s+)?
OptPlusSign == [t |-> "plus_sign?", v |-> ""]

\* the last position of the whitespace run that starts at k (k - 1 if none)
WsRunEnd(s, k) ==
    LET stops == {j \in k..Len(s) : Ch(s, j) \notin Space}
    IN  IF stops = {} THEN Len(s) ELSE SetMin(stops) - 1

\* the last position of the run of characters of class that starts at k
RunEnd(s, k, class) ==
    LET stops == {j \in k..Len(s) : Ch(s, j) \notin class}
    IN  IF stops = {} THEN Len(s) ELSE SetMin(stops) - 1

SpaceAt(s, k) == k >= 1 /\ k <= Len(s) /\ Ch(s, k) \in Space

\* the literal v stands at position k of s, letter case ignored
SameAt(s, k, v) ==
    /\ k + Len(v) - 1 <= Len(s)
    /\ \A j \in 1..Len(v) : LowerCh(Ch(s, k + j - 1)) = LowerCh(Ch(v, j))

RECURSIVE MatchFrom(_, _, _)
\* the position after the match of elems at k, 0 when they do not match;
\* literals are compared as under re.IGNORECASE
MatchFrom(s, k, elems) ==
    IF elems = <<>> THEN k
    ELSE LET e == Head(elems)
             rest == Tail(elems)
         IN  CASE e.t = "lit" ->
                    IF SameAt(s, k, e.v)
                    THEN MatchFrom(s, k + Len(e.v), rest) ELSE 0
               [] e.t = "ws+" ->
                    IF k <= Len(s) /\ Ch(s, k) \in Space
                    THEN MatchFrom(s, WsRunEnd(s, k) + 1, rest) ELSE 0
               [] e.t = "ws*" -> MatchFrom(s, WsRunEnd(s, k) + 1, rest)
               [] e.t = "d4" ->
                    IF k + 3 <= Len(s) /\ AllIn(s, k, k + 3, Digit)
                    THEN MatchFrom(s, k + 4, rest) ELSE 0
               [] e.t = "date" ->
                    IF IsDDMMYYYYAt(s, k) THEN MatchFrom(s, k + 10, rest) ELSE 0
               [] e.t = "exact" ->
                    IF StartsAt(s, k, e.v) THEN MatchFrom(s, k + Len(e.v), rest) ELSE 0
               [] e.t = "plus" ->
                    IF k <= Len(s) /\ Ch(s, k) \in e.v
                    THEN MatchFrom(s, RunEnd(s, k, e.v) + 1, rest) ELSE 0
               [] e.t = "times" ->
                    IF k + e.n - 1 <= Len(s) /\ AllIn(s, k, k + e.n - 1, e.v)
                    THEN MatchFrom(s, k + e.n, rest) ELSE 0
               [] e.t = "opt" ->
                    IF k <= Len(s) /\ Ch(s, k) \in e.v
                    THEN MatchFrom(s, k + 1, rest) ELSE MatchFrom(s, k, rest)
               [] e.t = "plus_sign?" ->
                    IF k <= Len(s) /\ Ch(s, k) = "+" /\ SpaceAt(s, k + 1)
                    THEN MatchFrom(s, WsRunEnd(s, k + 1) + 1, rest)
                    ELSE MatchFrom(s, k, rest)

\* re.search: the leftmost position where elems match, 0 when none does
Search(s, elems) == Leftmost({k \in 1..Len(s) : MatchFrom(s, k, elems) # 0})

\* the width characters of s from position at on
CaptureFrom(s, at, width) == Sub(s, at, at + width - 1)

\* the text of the capture that follows the first n elements of a pattern
\* matching at k, the capture being width characters wide; None when k = 0,
\* which stands for no match
Capture(s, k, elems, n, width) ==
    IF k = 0 THEN None ELSE CaptureFrom(s, MatchFrom(s, k, SubSeq(elems, 1, n)), width)

\* (\d{4}\.XXXX\.XXXX\.\d{4})
MaskedCard == <<Digits4, Lit(".XXXX.XXXX."), Digits4>>
MaskedCardWidth == 19

\* r'Cartão\s+(\d{4}\.XXXX\.XXXX\.\d{4})'
CardSectionPattern == <<Lit("Cartão"), WsPlus>> \o MaskedCard

\* card_section_match.group(1), None without a match
CardSectionMatch(line) ==
    Capture(line, Search(line, CardSectionPattern), CardSectionPattern, 2, MaskedCardWidth)

\* final\s+(\d{4})
FinalDigits == <<Lit("final"), WsPlus, Digits4>>

\* the positions after a "Lançamentos" at k where final\s+(\d{4}) matches
FinalsAfter(line, k) ==
    {j \in (k + 11)..Len(line) : MatchFrom(line, j, FinalDigits) # 0}

\* the greedy .* takes the last "final NNNN" after the "Lançamentos" at k
LastFinalAfter(line, k) == IF k = 0 THEN 0 ELSE SetMax(FinalsAfter(line, k))

\* r'Lançamentos.*final\s+(\d{4})': group(1), None without a match.  The
\* match starts at the first "Lançamentos" that has a "final NNNN" behind it.
CardRefMatch(line) ==
    Capture(line,
            LastFinalAfter(line,
                Leftmost({k \in 1..Len(line) :
                             /\ MatchFrom(line, k, <<Lit("Lançamentos")>>) # 0
                             /\ FinalsAfter(line, k) # {}})),
            FinalDigits, 2, 4)

\* \(final\s+(\d{4})\)
ParenFinal == <<Lit("(final"), WsPlus, Digits4, Lit(")")>>

\* r'([A-Z\s]+)\(final\s+(\d{4})\)' under IGNORECASE: group(2), None without a
\* match
PersonCardMatch(line) ==
    Capture(line,
            Leftmost({k \in 2..Len(line) :
                         /\ MatchFrom(line, k, ParenFinal) # 0
                         /\ (Ch(line, k - 1) \in Space
                             \/ IsAsciiUpper(UpperCh(Ch(line, k - 1))))}),
            ParenFinal, 2, 4)

BeginMarkers == {"Lançamentos:", "DATA ESTABELECIMENTO VALOR"}
EndMarkers == {"Limites de crédito", "Encargos cobrados", "Resumo da fatura"}

IsBeginMarker(line) == \E m \in BeginMarkers : Contains(line, m)
IsEndMarker(line) == \E m \in EndMarkers : Contains(line, m)

\* [\d.,]
AmountChar == Digit \cup {".", ","}

\* the first position of the whitespace run that ends at k
WsRunStart(s, k) ==
    LET stops == {j \in 1..k : Ch(s, j) \notin Space}
    IN  IF stops = {} THEN 1 ELSE SetMax(stops) + 1

\* re.match(r'(\d{2}/\d{2})\s+(.+?)\s+([\d.,]+)$', line) on a stripped line:
\* the amount is the last word, the description what lies between the two
\* whitespace runs; when the only run is three or more characters long the
\* description is one of its characters.
OneLineMatch(line) ==
    LET n == Len(line)
        ws == {k \in 6..n : Ch(line, k) \in Space}
        c == SetMax(ws)
        f == WsRunStart(line, c)
        r1 == WsRunEnd(line, 6)
        no == [matched |-> FALSE, date_str |-> "", description |-> "", amount_str |-> ""]
    IN  IF ~(IsDDMMAt(line, 1) /\ n >= 7 /\ Ch(line, 6) \in Space) THEN no
        ELSE IF ~(c < n /\ AllIn(line, c + 1, n, AmountChar)) THEN no
        ELSE IF r1 < f - 1
             THEN [matched |-> TRUE, date_str |-> Sub(line, 1, 5),
                   description |-> Sub(line, r1 + 1, f - 1), amount_str |-> From(line, c + 1)]
        ELSE IF c - 5 >= 3
             THEN [matched |-> TRUE, date_str |-> Sub(line, 1, 5),
                   description |-> Sub(line, c - 1, c - 1), amount_str |-> From(line, c + 1)]
        ELSE no

\* re.match(r'(\d{2}/\d{2})\s+(.+)$', line) on a stripped line
MultiLineMatch(line) ==
    LET r1 == WsRunEnd(line, 6)
    IN  IF IsDDMMAt(line, 1) /\ Len(line) >= 7 /\ Ch(line, 6) \in Space /\ r1 < Len(line)
        THEN [matched |-> TRUE, date_str |-> Sub(line, 1, 5),
              description_part |-> From(line, r1 + 1)]
        ELSE [matched |-> FALSE, date_str |-> "", description_part |-> ""]

\* re.match(r'^([\d.,]+)$', next_line)
IsAmountOnly(next_line) == next_line # "" /\ AllIn(next_line, 1, Len(next_line), AmountChar)

\* another test than the code's, against which the continuation is tried: no
\* next line counts as dated
NeverDated(next_line) == FALSE

\* re.match(r'^\d{2}/\d{2}', next_line)
StartsWithDate(next_line) == IsDDMMAt(next_line, 1)

\* re.search(r'([\d.,]+)$', continued_line): the start of the trailing run of
\* amount characters, 0 when the line does not end in one
TrailingAmountStart(s) ==
    LET stops == {k \in 1..Len(s) : Ch(s, k) \notin AmountChar}
    IN  IF s = "" \/ Ch(s, Len(s)) \notin AmountChar THEN 0
        ELSE IF stops = {} THEN 1 ELSE SetMax(stops) + 1

---------------------------------------------------------------------------
(* ItauExtractor: description cleaning and the document-wide facts.        *)

RECURSIVE JoinWith(_, _)
\* sep.join(words)
JoinWith(words, sep) ==
    IF words = <<>> THEN ""
    ELSE IF Len(words) = 1 THEN words[1]
    ELSE words[1] \o sep \o JoinWith(Tail(words), sep)

\* re.sub(r'\s+', ' ', description).strip()
CollapseWs(description) == JoinWith(SplitWs(description), " ")

\* self.categories
Categories ==
    <<"ALIMENTAÇÃO", "EDUCAÇÃO", "VESTUÁRIO", "SAÚDE", "TURISMO E ENTRETENIM",
      "DIVERSOS", "HOBBY", "TRANSPORTE">>

RECURSIVE RemoveCategories(_, _)
\* the loop over self.categories, from the k-th on
RemoveCategories(description, k) ==
    IF k > Len(Categories) THEN description
    ELSE LET suffix == " " \o Categories[k]
         IN  IF EndsWith(description, suffix)
             THEN RemoveCategories(
                      Strip(Sub(description, 1, Len(description) - Len(suffix))), k + 1)
             ELSE RemoveCategories(description, k + 1)

\* re.sub(r'\.[A-Z\s]+$', '', description).strip()
RemoveLocation(description) ==
    LET n == Len(description)
        hits == {p \in 1..(n - 1) :
                    /\ Ch(description, p) = "."
                    /\ \A k \in (p + 1)..n :
                           Ch(description, k) \in Space \/ IsAsciiUpper(Ch(description, k))}
    IN  IF hits = {} THEN Strip(description)
        ELSE Strip(Sub(description, 1, SetMin(hits) - 1))

\* the last position of the run of \w characters that starts at k
WordRunEnd(s, k) ==
    LET stops == {j \in k..Len(s) : ~IsWord(Ch(s, j))}
    IN  IF stops = {} THEN Len(s) ELSE SetMin(stops) - 1

\* -CT\s+\w+ matches at k (case-sensitive): the position after it, else 0
CardRefEnd(s, k) ==
    IF /\ StartsAt(s, k, "-CT")
       /\ k + 3 <= Len(s) /\ Ch(s, k + 3) \in Space
       /\ WsRunEnd(s, k + 3) < Len(s)
       /\ IsWord(Ch(s, WsRunEnd(s, k + 3) + 1))
    THEN WordRunEnd(s, WsRunEnd(s, k + 3) + 1) + 1
    ELSE 0

RECURSIVE RemoveCardRefs(_)
\* s with the match of -CT\s+\w+ at k and every later one taken out; k = 0
\* stands for no match
RemoveCardRefAt(s, k) ==
    IF k = 0 THEN s
    ELSE Sub(s, 1, k - 1) \o RemoveCardRefs(From(s, CardRefEnd(s, k)))

\* re.sub(r'-CT\s+\w+', '', description)
RemoveCardRefs(s) == RemoveCardRefAt(s, Leftmost({k \in 1..Len(s) : CardRefEnd(s, k) # 0}))

\* re.sub(r'\s+\d{2}/\d{2}$', '', description).strip()
RemoveTrailingDDMM(description) ==
    LET n == Len(description)
    IN  IF n >= 6 /\ IsDDMMAt(description, n - 4) /\ Ch(description, n - 5) \in Space
        THEN Strip(Sub(description, 1, WsRunStart(description, n - 5) - 1))
        ELSE Strip(description)

\* ItauExtractor.clean_description
clean_description(description) ==
    RemoveTrailingDDMM(
        Strip(RemoveCardRefs(
            RemoveLocation(RemoveCategories(CollapseWs(description), 1)))))

\* '\n'.join(lines): the text the lines were split from
TextOf(doc_lines) == JoinWith(doc_lines, "\n")

RECURSIVE FindAll(_, _, _)
\* the match at position at and the later ones; at = 0 stands for no match
FindAllFrom(s, at, elems) ==
    IF at = 0 THEN <<>> ELSE <<at>> \o FindAll(s, MatchFrom(s, at, elems), elems)

\* re.findall: the start positions of the leftmost non-overlapping matches of
\* elems from position k on
FindAll(s, k, elems) ==
    FindAllFrom(s, Leftmost({j \in k..Len(s) : MatchFrom(s, j, elems) # 0}), elems)

\* (?<!header\s) in front of position k
PrecededBy(s, k, header) ==
    /\ k - 1 - Len(header) >= 1
    /\ Ch(s, k - 1) \in Space
    /\ SameAt(s, k - 1 - Len(header), header)

RECURSIVE DatesNotAfter(_, _, _)
\* the year of the date at position at and the years of the later dates; at
\* = 0 stands for no date
DatesNotAfterFrom(s, at, header) ==
    IF at = 0 THEN <<>>
    ELSE <<Sub(s, at + 6, at + 9)>> \o DatesNotAfter(s, at + 10, header)

\* re.findall(r'(?<!header\s)\d{2}/\d{2}/(\d{4})', text): the years, in order
DatesNotAfter(s, k, header) ==
    DatesNotAfterFrom(s,
        Leftmost({j \in k..Len(s) : IsDDMMYYYYAt(s, j) /\ ~PrecededBy(s, j, header)}),
        header)

MIN_DOC_YEAR == 2020
MAX_DOC_YEAR == 2030

\* [y for y in matches if 2020 <= int(y) <= 2030]
ValidYears(years) ==
    SelectSeq(years, LAMBDA y : MIN_DOC_YEAR <= DigitsValue(y) /\ DigitsValue(y) <= MAX_DOC_YEAR)

SeqRange(q) == {q[k] : k \in 1..Len(q)}

\* r'_(\d{2})\.pdf$' with a suffix from 20 to 30, else r'(20[2-3]\d)', in
\* the file name: the year, None when the name holds none
ItauFilenameYear(filename) ==
    LET n == Len(filename)
        suffix == Sub(filename, n - 5, n - 4)
        hits == {k \in 1..(n - 3) :
                    /\ StartsAt(filename, k, "20")
                    /\ Ch(filename, k + 2) \in {"2", "3"}
                    /\ Ch(filename, k + 3) \in Digit}
    IN  IF /\ n >= 7 /\ EndsWith(filename, ".pdf") /\ Ch(filename, n - 6) = "_"
           /\ AllIn(filename, n - 5, n - 4, Digit)
           /\ 20 <= DigitsValue(suffix) /\ DigitsValue(suffix) <= 30
        THEN "20" \o suffix
        ELSE IF hits # {} THEN Sub(filename, SetMin(hits), SetMin(hits) + 3)
        ELSE None

\* the header patterns of the third strategy, each ending in its date
HeaderPatterns ==
    << <<Lit("Vencimento:"), WsStar, DateYMD>>,
       <<Lit("Emissão:"), WsStar, DateYMD>>,
       <<Lit("Data"), WsPlus, Lit("de"), WsPlus, Lit("vencimento:"), WsStar, DateYMD>> >>

\* the year of the date that ends the match of pattern at k
YearAfter(text, k, pattern) ==
    CaptureFrom(text, MatchFrom(text, k, SubSeq(pattern, 1, Len(pattern) - 1)) + 6, 4)

\* the valid years of the matches of pattern that start at the positions
\* found
YearsAt(text, pattern, found) ==
    ValidYears([j \in 1..Len(found) |-> YearAfter(text, found[j], pattern)])

RECURSIVE HeaderYearsFrom(_, _)
\* the first of the header patterns, from the p-th on, that finds dates in
\* the text gives the years (the loop breaks there)
HeaderYearsFrom(text, p) ==
    IF p > Len(HeaderPatterns) THEN <<>>
    ELSE IF Search(text, HeaderPatterns[p]) # 0
    THEN YearsAt(text, HeaderPatterns[p], FindAll(text, 1, HeaderPatterns[p]))
    ELSE HeaderYearsFrom(text, p + 1)

HeaderYears(text) == HeaderYearsFrom(text, 1)

\* the years of the dates that do not follow one of the three headers
InContextYears(text) ==
    ValidYears(DatesNotAfter(text, 1, "Vencimento:"))
    \o ValidYears(DatesNotAfter(text, 1, "Emissão:"))
    \o ValidYears(DatesNotAfter(text, 1, "Postagem:"))

\* years_found: the years in context, else the header years
YearsFound(text, in_context) == IF in_context # <<>> THEN in_context ELSE HeaderYears(text)

\* str(min(int(y) for y in unique_years)), else the year before the clock's
EarliestYear(years_found, now_year) ==
    IF years_found # <<>>
    THEN IntStr(SetMin({DigitsValue(y) : y \in SeqRange(years_found)}))
    ELSE IntStr(now_year - 1)

\* value or other
OrElse(value, other) == IF value # None THEN value ELSE other

\* ItauExtractor.extract_year_from_text
extract_year_from_text(text, filename, now_year) ==
    OrElse(ItauFilenameYear(filename),
           EarliestYear(YearsFound(text, InContextYears(text)), now_year))

\* the date_patterns of extract_statement_date, in order, each with the
\* number of elements in front of its date
StatementDatePatterns ==
    << [elems |-> <<Lit("Com"), WsPlus, Lit("vencimento"), WsPlus, Lit("em:"),
                    WsStar, DateYMD>>, before |-> 6],
       [elems |-> <<Lit("Vencimento:"), WsStar, DateYMD>>, before |-> 2],
       [elems |-> <<Lit("Data"), WsPlus, Lit("de"), WsPlus, Lit("vencimento:"),
                    WsStar, DateYMD>>, before |-> 6],
       [elems |-> <<Lit("Emissão:"), WsStar, DateYMD>>, before |-> 2],
       [elems |-> <<DateYMD, WsPlus, Lit("Flexível")>>, before |-> 0] >>

RECURSIVE StatementDateFrom(_, _)
\* the date of the first pattern, from the p-th on, that the text matches
StatementDateFrom(text, p) ==
    IF p > Len(StatementDatePatterns) THEN None
    ELSE OrElse(Capture(text, Search(text, StatementDatePatterns[p].elems),
                        StatementDatePatterns[p].elems, StatementDatePatterns[p].before, 10),
                StatementDateFrom(text, p + 1))

\* ItauExtractor.extract_statement_date: the due date, or None
extract_statement_date(text) == StatementDateFrom(text, 1)

\* re.search(r'([\d.,]+)', line).group(1): the first run of amount
\* characters, "" when the line has none
FirstAmountRun(line) ==
    LET hits == {k \in 1..Len(line) : Ch(line, k) \in AmountChar}
        stops == {k \in SetMin(hits)..Len(line) : Ch(line, k) \notin AmountChar}
    IN  IF hits = {} THEN ""
        ELSE Sub(line, SetMin(hits), IF stops = {} THEN Len(line) ELSE SetMin(stops) - 1)

\* the line holds the total of the installments of the next statements
IsTotalLine(line) ==
    /\ ~Contains(line, "Comprasparceladas-próximasfaturas")
    /\ ~Contains(line, "Próximafatura")
    /\ ~Contains(line, "Demaisfaturas")
    /\ Contains(line, "Totalparapróximasfaturas")

\* the first total line after the section marker at mark, 0 when there is
\* no marker or no such line
TotalLineAfter(doc_lines, mark) ==
    IF mark = 0 THEN 0
    ELSE Leftmost({k \in (mark + 1)..Len(doc_lines) : IsTotalLine(Strip(doc_lines[k]))})

\* float(...) of the total, 0.0 after a ValueError
TotalOf(f) == IF f.ok THEN f.value ELSE Zero

\* the total that the line at k gives, 0.0 when k = 0 or the line has no
\* amount
TotalOfLine(doc_lines, k) ==
    IF k = 0 \/ FirstAmountRun(Strip(doc_lines[k])) = "" THEN Zero
    ELSE TotalOf(PyFloat(ReplaceChar(RemoveChar(FirstAmountRun(Strip(doc_lines[k])), "."),
                                     ",", ".")))

\* ItauExtractor.extract_installments_section, as far as the extraction
\* reads it: installments_info['total_future_installments'], taken from the
\* first 'Totalparapróximasfaturas' line after the section marker
extract_installments_section(doc_lines) ==
    TotalOfLine(doc_lines,
        TotalLineAfter(doc_lines,
            Leftmost({k \in 1..Len(doc_lines) :
                Contains(Strip(doc_lines[k]), "Comprasparceladas-próximasfaturas")})))

\* the first run of four digits in the file name, None when there is none
FirstFourDigits(filename) ==
    LET hits == {k \in 1..(Len(filename) - 3) : AllIn(filename, k, k + 3, Digit)}
    IN  IF hits = {} THEN None ELSE Sub(filename, SetMin(hits), SetMin(hits) + 3)

\* the masked card that stands at k, None when k = 0
MaskedCardAt(text, k) ==
    IF k = 0 THEN None ELSE CaptureFrom(text, k, MaskedCardWidth)

\* another default than the code's, against which the card number of the
\* transactions is tried: the four digits of the file name alone
FilenameDigitsOnly(text, filename) == FirstFourDigits(filename)

\* ItauExtractor.extract_card_number
ItauExtractCardNumber(text, filename) ==
    "Itau-"
    \o OrElse(Capture(text, Search(text, CardSectionPattern), CardSectionPattern,
                      2, MaskedCardWidth),
       OrElse(MaskedCardAt(text, Search(text, MaskedCard)),
       OrElse(Capture(text, Search(text, FinalDigits), FinalDigits, 2, 4),
       OrElse(FirstFourDigits(filename), "Default"))))

---------------------------------------------------------------------------
(* InterExtractor: the transaction patterns.  Every whitespace run of a    *)
(* pattern is followed by a piece that starts with a non-space character   *)
(* and every \w+ or \d+ by one that starts outside the class, so each      *)
(* greedy run is matched whole; the one choice left to the matcher is      *)
(* where the lazy description ends.                                        *)

\* \d{n} at position k
DigitsAt(s, k, n) == k >= 1 /\ k + n - 1 <= Len(s) /\ AllIn(s, k, k + n - 1, Digit)

\* \d{2}\s+de\s+\w+\.?\s+\d{4}, "de" in any letter case under
\* re.IGNORECASE
InterDatePattern(ignorecase) ==
    <<Times(Digit, 2), WsPlus, IF ignorecase THEN Lit("de") ELSE Exact("de"), WsPlus,
      Plus(WordSet), Opt({"."}), WsPlus, Digits4>>

\* the pattern matched at k: the position after it, else 0
InterDateEnd(s, k, ignorecase) == MatchFrom(s, k, InterDatePattern(ignorecase))

NumberOfPatterns == 4

\* group 1 of self.transaction_patterns[p - 1]
InterHead(p) ==
    CASE p \in {1, 2} -> InterDatePattern(TRUE)
      [] p = 3 -> <<Times(Digit, 2), Times({"/", "-"}, 1), Times(Digit, 2),
                    Times({"/", "-"}, 1), Digits4>>
      [] p = 4 -> <<Digits4, Lit("-"), Times(Digit, 2), Lit("-"), Times(Digit, 2)>>

\* group 1 of self.transaction_patterns[p - 1] matched at k: the position
\* after it, else 0
InterHeadEnd(p, s, k) == MatchFrom(s, k, InterHead(p))

\* what stands between the description and the amount in pattern p
InterTailLead(p) ==
    CASE p = 1 -> <<WsPlus, Lit("-"), WsPlus, OptPlusSign, Lit("R$"), WsPlus>>
      [] p = 2 -> <<WsPlus, OptPlusSign, Lit("R$"), WsPlus>>
      [] p \in {3, 4} -> <<WsPlus>>

\* the amount group of pattern p: ([\d.,]+) or ([-+]?\d+[.,]\d{2})
InterAmountGroup(p) ==
    IF p \in {1, 2} THEN <<Plus(AmountChar)>>
    ELSE <<Opt({"-", "+"}), Plus(Digit), Times({".", ","}, 1), Times(Digit, 2)>>

\* a tail whose amount starts at from and ends before end; end = 0 stands
\* for no match
TailSpan(from, end) == [ok |-> end # 0, from |-> from, to |-> end - 1]

\* what follows the description in pattern p, matched at the whitespace at t
InterTail(p, s, t) ==
    TailSpan(MatchFrom(s, t, InterTailLead(p)),
             MatchFrom(s, t, InterTailLead(p) \o InterAmountGroup(p)))

NoMatch == [matched |-> FALSE, date_str |-> "", description |-> "", amount_str |-> ""]

\* the groups of a match whose date is s[k..h-1], whose description is
\* s[d..e] and whose amount the tail gives
InterGroups(s, k, h, d, e, tail) ==
    IF tail.ok
    THEN [matched |-> TRUE, date_str |-> Sub(s, k, h - 1),
          description |-> Strip(Sub(s, d, e)),
          amount_str |-> Sub(s, tail.from, tail.to)]
    ELSE NoMatch

\* pattern p matched with its date at k, the date ending before h and the
\* whitespace after it before d0.  The whitespace is taken whole and the
\* description runs to the first place e where the rest matches; failing
\* that, the description is one character of a whitespace run of three or
\* more and the rest starts inside the run.
InterMatchAfter(p, s, k, h, d0, e) ==
    IF e # 0 THEN InterGroups(s, k, h, d0, e, InterTail(p, s, e + 1))
    ELSE IF d0 - h >= 3 THEN InterGroups(s, k, h, d0 - 2, d0 - 2, InterTail(p, s, d0 - 1))
    ELSE NoMatch

\* where the lazy description that starts at d0 ends: 0 when nowhere
InterDescriptionEnd(p, s, d0) == Leftmost({e \in d0..Len(s) : InterTail(p, s, e + 1).ok})

\* pattern p matched with its date at k, the date ending before h
InterMatchFrom(p, s, k, h, d0) ==
    IF h = 0 \/ ~SpaceAt(s, h) THEN NoMatch
    ELSE InterMatchAfter(p, s, k, h, d0, InterDescriptionEnd(p, s, d0))

\* pattern p matched with its date at k
InterMatchHead(p, s, k, h) == InterMatchFrom(p, s, k, h, WsRunEnd(s, h) + 1)

\* pattern p matched with its date at k
InterMatchAt(p, s, k) == InterMatchHead(p, s, k, InterHeadEnd(p, s, k))

\* the match of pattern p at the leftmost start k, k = 0 standing for none
InterMatchOrNone(p, line, k) == IF k = 0 THEN NoMatch ELSE InterMatchAt(p, line, k)

\* re.search(self.transaction_patterns[p - 1], line, re.IGNORECASE): the
\* groups of the leftmost match
InterPatternMatch(p, line) ==
    InterMatchOrNone(p, line, Leftmost({k \in 1..Len(line) : InterMatchAt(p, line, k).matched}))

---------------------------------------------------------------------------
(* InterExtractor: the document year, the cards and the transaction type.  *)

\* (\d{4}\*{4}\d{4}) at position k
InterCardAt(s, k) == DigitsAt(s, k, 4) /\ StartsAt(s, k + 4, "****") /\ DigitsAt(s, k + 8, 4)

INTER_CARD_WIDTH == 12

\* re.search(r'CARTÃO\s+(\d{4}\*{4}\d{4})', line, re.IGNORECASE): group(1),
\* None without a match
InterCardSectionPattern ==
    <<Lit("CARTÃO"), WsPlus, Digits4, Exact("****"), Digits4>>

InterCardSectionMatch(line) ==
    Capture(line, Search(line, InterCardSectionPattern), InterCardSectionPattern, 2,
            INTER_CARD_WIDTH)

\* re.search(r'^(\d{4}\*{4}\d{4})\s+', line): group(1), None without a match
InterCardLineMatch(line) ==
    IF InterCardAt(line, 1) /\ SpaceAt(line, INTER_CARD_WIDTH + 1)
    THEN Sub(line, 1, INTER_CARD_WIDTH) ELSE None

\* r'(\d{2})\.(\d{2})\.pdf' found in the file name: where, 0 when nowhere
MonthYearSuffixAt(filename) ==
    Leftmost({k \in 1..Len(filename) :
                 /\ DigitsAt(filename, k, 2) /\ StartsAt(filename, k + 2, ".")
                 /\ DigitsAt(filename, k + 3, 2) /\ StartsAt(filename, k + 5, ".pdf")})

\* r'(20[2-3]\d)' found in s: group(1), None without a match
Year202xIn(s) ==
    Capture(s, Leftmost({k \in 1..(Len(s) - 3) :
                            /\ StartsAt(s, k, "20")
                            /\ Ch(s, k + 2) \in {"2", "3"}
                            /\ Ch(s, k + 3) \in Digit}),
            <<>>, 0, 4)

\* the year of the file name (PRIORITY 1), None when the name gives none
InterSuffixYear(filename, k, suffix) ==
    IF k # 0 /\ 20 <= DigitsValue(suffix) /\ DigitsValue(suffix) <= 30
    THEN "20" \o suffix
    ELSE Year202xIn(filename)

InterSuffixAt(filename, k) == InterSuffixYear(filename, k, Sub(filename, k + 3, k + 4))

InterFilenameYear(filename) == InterSuffixAt(filename, MonthYearSuffixAt(filename))

RECURSIVE InterLineYears(_, _)

\* the year of the date that ends before end and the years after it; end = 0
\* stands for no further date
InterYearsAfter(line, end) ==
    IF end = 0 THEN <<>>
    ELSE <<Sub(line, end - 4, end - 1)>> \o InterLineYears(line, end)

\* where the date that starts at j ends, j = 0 standing for no date
InterDateEndOrNone(line, j) == IF j = 0 THEN 0 ELSE InterDateEnd(line, j, FALSE)

\* re.findall(r'\d{2}\s+de\s+\w+\.?\s+(\d{4})', line) from position k on
InterLineYears(line, k) ==
    InterYearsAfter(line,
        InterDateEndOrNone(line,
            Leftmost({j \in k..Len(line) : InterDateEnd(line, j, FALSE) # 0})))

RECURSIVE InterTransactionYears(_, _)
\* years_found after PRIORITY 2: the valid years of the dated lines, from the
\* k-th line on
InterTransactionYears(doc_lines, k) ==
    IF k > Len(doc_lines) THEN <<>>
    ELSE ValidYears(InterLineYears(doc_lines[k], 1)) \o InterTransactionYears(doc_lines, k + 1)

\* how often y occurs in years
YearCount(years, y) == Cardinality({k \in 1..Len(years) : years[k] = y})

\* the rule over year_count: with several years, the earliest of those
\* counted at least 0.8 times the highest count when there are two or more
\* such; else the first-seen year with the highest count
FrequentYear(years) ==
    LET seen == SeqRange(years)
        max_count == SetMax({YearCount(years, y) : y \in seen})
        frequent_years == {y \in seen : 10 * YearCount(years, y) >= 8 * max_count}
        first(y) == SetMin({k \in 1..Len(years) : years[k] = y})
        top == {y \in seen : YearCount(years, y) = max_count}
    IN  IF Cardinality(seen) > 1 /\ Cardinality(frequent_years) > 1
        THEN IntStr(SetMin({DigitsValue(y) : y \in frequent_years}))
        ELSE CHOOSE y \in top : \A z \in top : first(y) <= first(z)

\* the document year, given the year of the file name and years_found.
\* raised = TRUE: the re.error of the look-behind of PRIORITY 3,
\* '(?<!Vencimento.*)', which is not of fixed width; the pattern is compiled
\* whenever the dated lines gave no year, so PRIORITY 4 and the fallback to
\* the previous year are never reached.
DocumentYearFrom(filename_year, years_found) ==
    IF filename_year # None THEN [raised |-> FALSE, year |-> filename_year]
    ELSE IF years_found = <<>> THEN [raised |-> TRUE, year |-> None]
    ELSE [raised |-> FALSE, year |-> FrequentYear(years_found)]

\* InterExtractor.extract_document_year
extract_document_year(doc_lines, filename) ==
    DocumentYearFrom(InterFilenameYear(filename), InterTransactionYears(doc_lines, 1))

credit_keywords ==
    {"CREDIT", "DEPOSIT", "TRANSFER IN", "REFUND", "INTEREST", "PAGAMENTO", "DEB AUT"}

debit_keywords ==
    {"DEBIT", "WITHDRAWAL", "TRANSFER OUT", "FEE", "CHARGE", "MULTA", "ENCARGOS",
     "JUROS", "IOF", "TRANSFERENCIA"}

\* InterExtractor.determine_transaction_type
determine_transaction_type(description, amount, transaction_type) ==
    LET description_upper == Upper(description)
    IN  IF \E keyword \in credit_keywords : Contains(description_upper, keyword)
        THEN "credit"
        ELSE IF \E keyword \in debit_keywords : Contains(description_upper, keyword)
        THEN "debit"
        ELSE IF amount[1] < 0 THEN "debit"
        ELSE IF transaction_type # "unknown" THEN transaction_type
        ELSE "debit"

\* r'\d{4}\*{4}\d{4}'
PlainCard == <<Digits4, Exact("****"), Digits4>>

\* r'\d{4}\s*\*{4}\s*\*{4}\s*\d{4}'
SpacedMask == <<Digits4, WsStar, Exact("****"), WsStar, Exact("****"), WsStar, Digits4>>

\* r'\d{4}\s*\d{4}\s*\d{4}\s*\d{4}'
SpacedDigits == <<Digits4, WsStar, Digits4, WsStar, Digits4, WsStar, Digits4>>

\* \d{4}\s*\*+\s*\d{4}
Starred == <<Digits4, WsStar, Plus({"*"}), WsStar, Digits4>>

\* the places after a "Cartão" or "Cartao" at k where the group can start:
\* .*? does not cross a line break
CartaoGroupsAfter(s, k) ==
    {j \in (k + 6)..Len(s) :
        /\ MatchFrom(s, j, Starred) # 0
        /\ \A n \in (k + 6)..(j - 1) : Ch(s, n) # "\n"}

\* the first place where the group can start after the word at k, k = 0
\* standing for no word
FirstCartaoGroup(s, k) == IF k = 0 THEN 0 ELSE SetMin(CartaoGroupsAfter(s, k))

\* r'Cart[ãa]o.*?(\d{4}\s*\*+\s*\d{4})' under IGNORECASE: where group 1 of
\* the leftmost match starts, 0 without a match
CartaoGroupAt(s) ==
    FirstCartaoGroup(s,
        Leftmost({k \in 1..Len(s) :
                     /\ (SameAt(s, k, "Cartão") \/ SameAt(s, k, "Cartao"))
                     /\ CartaoGroupsAfter(s, k) # {}}))

\* match.group(1).replace(' ', '') of the group that elems match at k, None
\* when k = 0, which stands for no match
CardText(s, k, elems) ==
    IF k = 0 THEN None ELSE RemoveChar(Sub(s, k, MatchFrom(s, k, elems) - 1), " ")

\* the first card pattern found in the text
CardFound(s, elems) == CardText(s, Search(s, elems), elems)

\* the default card identifier of extract_card_number
INTER_DEFAULT_CARD == "2025307793960001"

\* the card identifier made from the file name
InterFilenameCard(filename, digits) ==
    IF MonthYearSuffixAt(filename) # 0 THEN INTER_DEFAULT_CARD
    ELSE IF digits # None THEN "2025" \o digits \o "960001"
    ELSE INTER_DEFAULT_CARD

\* InterExtractor.extract_card_number
InterExtractCardNumber(text, filename) ==
    OrElse(CardFound(text, PlainCard),
        OrElse(CardFound(text, SpacedMask),
            OrElse(CardFound(text, SpacedDigits),
                OrElse(CardText(text, CartaoGroupAt(text), Starred),
                    InterFilenameCard(filename, FirstFourDigits(filename))))))

---------------------------------------------------------------------------
(* BankStatementExtractor: the deduplicator.                               *)

\* re.sub(r'\s+\d{2}/\d{2}$', '', s)
RemoveFinalDDMM(s) ==
    IF Len(s) >= 6 /\ IsDDMMAt(s, Len(s) - 4) /\ Ch(s, Len(s) - 5) \in Space
    THEN Sub(s, 1, WsRunStart(s, Len(s) - 5) - 1)
    ELSE s

\* where the leftmost match of \s+\d{2}/\d{2}\s+ starts in s, 0 when there
\* is none
InnerDDMMAt(s) ==
    Leftmost({k \in 1..Len(s) :
                 /\ Ch(s, k) \in Space
                 /\ IsDDMMAt(s, WsRunEnd(s, k) + 1)
                 /\ WsRunEnd(s, k) + 6 <= Len(s)
                 /\ Ch(s, WsRunEnd(s, k) + 6) \in Space})

RECURSIVE ReplaceInnerDDMM(_)
\* re.sub(r'\s+\d{2}/\d{2}\s+', ' ', s)
ReplaceInnerDDMM(s) ==
    IF InnerDDMMAt(s) = 0 THEN s
    ELSE Sub(s, 1, InnerDDMMAt(s) - 1) \o " "
         \o ReplaceInnerDDMM(From(s, WsRunEnd(s, WsRunEnd(s, InnerDDMMAt(s)) + 6) + 1))

\* where the longest suffix of s made of the characters of class starts
SuffixStart(s, class) ==
    LET others == {k \in 1..Len(s) : Ch(s, k) \notin class}
    IN  IF others = {} THEN 1 ELSE SetMax(others) + 1

\* re.sub(r'\s+[\d\.,]+$', '', s)
RemoveFinalNumber(s) ==
    IF /\ SuffixStart(s, AmountChar) <= Len(s)
       /\ SuffixStart(s, AmountChar) >= 2
       /\ Ch(s, SuffixStart(s, AmountChar) - 1) \in Space
    THEN Sub(s, 1, WsRunStart(s, SuffixStart(s, AmountChar) - 1) - 1)
    ELSE s

\* re.sub(r'-CT\w*$', '', s)
RemoveFinalCT(s) ==
    LET hits == {k \in 1..Len(s) : StartsAt(s, k, "-CT") /\ AllIn(s, k + 3, Len(s), WordSet)}
    IN  IF hits = {} THEN s ELSE Sub(s, 1, SetMin(hits) - 1)

\* re.sub(r'\s+CT\w*$', '', s)
RemoveFinalSpacedCT(s) ==
    LET hits == {k \in 1..Len(s) :
                    /\ Ch(s, k) \in Space
                    /\ StartsAt(s, WsRunEnd(s, k) + 1, "CT")
                    /\ AllIn(s, WsRunEnd(s, k) + 3, Len(s), WordSet)}
    IN  IF hits = {} THEN s ELSE Sub(s, 1, SetMin(hits) - 1)

\* BankStatementExtractor.normalize_description_for_deduplication
normalize_description_for_deduplication(description) ==
    Strip(RemoveFinalSpacedCT(RemoveFinalCT(CollapseWs(RemoveFinalNumber(
        ReplaceInnerDDMM(RemoveFinalDDMM(Upper(Strip(description)))))))))

\* len(transaction.date.split('/')) == 3
ThreeParts(date) == Count(date, "/") = 2

\* day, month, year = date_parts
DayPart(date) == Sub(date, 1, SetMin({k \in 1..Len(date) : Ch(date, k) = "/"}) - 1)
MonthPart(date) ==
    Sub(date, SetMin({k \in 1..Len(date) : Ch(date, k) = "/"}) + 1,
              SetMax({k \in 1..Len(date) : Ch(date, k) = "/"}) - 1)
YearPart(date) == From(date, SetMax({k \in 1..Len(date) : Ch(date, k) = "/"}) + 1)

\* key = (day, month, normalized_desc, transaction.amount)
TransactionKey(t) ==
    <<DayPart(t.date), MonthPart(t.date),
      normalize_description_for_deduplication(t.description), t.amount>>

AcmeOn(date) == [date |-> date, description |-> "ACME STORE", amount |-> <<150, 0>>]

TransactionPool ==
    {AcmeOn("05/11/2023"), AcmeOn("05/11/2024"), AcmeOn("05/11/2025"),
     AcmeOn("05/11/2027"), AcmeOn("05/11/2019"),
     AcmeOn("05/03/2024"), AcmeOn("05/03/2025"),
     AcmeOn("03 de xyz. 2024"),
     [date |-> "05/11/2026", description |-> "Acme Store 02/03", amount |-> <<150, 0>>],
     [date |-> "05/11/2024", description |-> "ACME STORE", amount |-> <<75, 0>>]}

\* the keys of the transactions of the pool that have a three-part date
DedupKeys ==
    [t \in {u \in TransactionPool : ThreeParts(u.date)} |-> TransactionKey(t)]

\* the key under which groups[key] holds t
DedupKey(t) == IF t \in DOMAIN DedupKeys THEN DedupKeys[t] ELSE TransactionKey(t)

\* the positions of the list whose transaction opens a group: groups.items()
\* goes through the keys in the order they were first met
GroupHeads(list) ==
    {k \in 1..Len(list) :
        /\ ThreeParts(list[k].date)
        /\ \A j \in 1..(k - 1) :
               ThreeParts(list[j].date) => DedupKey(list[j]) # DedupKey(list[k])}

\* the positions of the group that the transaction at k opens
GroupOf(list, k) ==
    {j \in k..Len(list) : ThreeParts(list[j].date) /\ DedupKey(list[j]) = DedupKey(list[k])}

MIN_PLAUSIBLE_YEAR == 2020

\* another window than the code's, against which the sane window is tried:
\* every year passes
AnyYear(t, current_year) == TRUE

\* int(t.date.split('/')[2]) within 2020..current_year
PlausibleYear(t, current_year) ==
    /\ IntOk(YearPart(t.date))
    /\ MIN_PLAUSIBLE_YEAR <= DigitsValue(YearPart(t.date))
    /\ DigitsValue(YearPart(t.date)) <= current_year

YearOf(t) == DigitsValue(YearPart(t.date))

\* another choice than the code's, against which the properties of the
\* choice are tried: the latest plausible year wins
LatestTransaction(list, valid, transaction_month) ==
    SetMin({j \in valid : \A h \in valid : YearOf(list[j]) >= YearOf(list[h])})

EARLIER_YEAR == 2024
LATER_YEAR == 2025
LATE_MONTHS_FROM == 9

\* best_transaction, as a position of the list: valid holds the positions of
\* valid_transactions, which the stable sort orders by year and then by
\* position
BestTransaction(list, valid, transaction_month) ==
    IF /\ \E j \in valid : YearOf(list[j]) = EARLIER_YEAR
       /\ \E j \in valid : YearOf(list[j]) = LATER_YEAR
       /\ transaction_month >= LATE_MONTHS_FROM
    THEN SetMin({j \in valid : YearOf(list[j]) = EARLIER_YEAR})
    ELSE SetMin({j \in valid : \A h \in valid : YearOf(list[j]) <= YearOf(list[h])})

\* the position of the transaction kept for the group that k opens
KeptOf(list, k, current_year) ==
    LET valid == {j \in GroupOf(list, k) : PlausibleYear(list[j], current_year)}
    IN  IF Cardinality(GroupOf(list, k)) = 1 \/ valid = {} THEN k
        ELSE BestTransaction(list, valid, DigitsValue(MonthPart(list[k].date)))

\* int(month) or int(day) raises ValueError for a group of several
\* transactions with a plausible year
GroupRaises(list, k, current_year) ==
    /\ Cardinality(GroupOf(list, k)) > 1
    /\ \E j \in GroupOf(list, k) : PlausibleYear(list[j], current_year)
    /\ ~(IntOk(MonthPart(list[k].date)) /\ IntOk(DayPart(list[k].date)))

RECURSIVE KeptFrom(_, _, _)
\* deduplicated, built group by group from the heads still to come
KeptFrom(list, heads, current_year) ==
    IF heads = {} THEN <<>>
    ELSE <<list[KeptOf(list, SetMin(heads), current_year)]>>
         \o KeptFrom(list, heads \ {SetMin(heads)}, current_year)

\* another deduplicator than the code's, against which idempotence is tried:
\* one call drops only the last transaction that repeats an earlier key
RemoveOneDuplicate(list, current_year) ==
    LET repeats == {k \in 1..Len(list) :
                       /\ ThreeParts(list[k].date)
                       /\ \E j \in 1..(k - 1) : /\ ThreeParts(list[j].date)
                                                /\ DedupKey(list[j]) = DedupKey(list[k])}
    IN  [raised |-> FALSE,
         deduplicated |-> IF repeats = {} THEN list
                          ELSE Sub(list, 1, SetMax(repeats) - 1) \o From(list, SetMax(repeats) + 1)]

\* BankStatementExtractor.deduplicate_transactions; current_year is
\* datetime.now().year.  raised = TRUE: the ValueError leaves the function.
deduplicate_transactions(list, current_year) ==
    [raised |-> \E k \in GroupHeads(list) : GroupRaises(list, k, current_year),
     deduplicated |-> KeptFrom(list, GroupHeads(list), current_year)]

---------------------------------------------------------------------------
(* State.                                                                  *)

VARIABLES
    bank,                     \* the extractor family at work: "itau", "inter" or "none"
    lines,                    \* text.split('\n') of the document being read
    filename,                 \* its file name
    now_year,                 \* datetime.now().year
    pc,                       \* where the run is
    document_year,            \* self.document_year of the extractor
    statement_date,           \* the due date of the statement, or None
    installments_info,        \* installments_info['total_future_installments']
    current_card_number,      \* the active card, or None
    in_transactions_section,  \* the section tracker of the Itau loop
    i,                        \* the index of the line loop, 0-based
    transactions,             \* the transactions list
    event,                    \* what the last step did with its line
    collected,                \* self.transactions of a batch, or the list handed to deduplicate_transactions
    call,                     \* the arguments of a call: of a date function or of process_all_files
    result                    \* what the call returned

vars == <<bank, lines, filename, now_year, pc, document_year, statement_date,
          installments_info, current_card_number, in_transactions_section, i,
          transactions, event, collected, call, result>>

\* the fields of a run that has not started
Fresh ==
    /\ document_year = None
    /\ statement_date = None
    /\ installments_info = Zero
    /\ current_card_number = None
    /\ in_transactions_section = FALSE
    /\ i = 0
    /\ transactions = <<>>
    /\ event = "none"

\* no list is being deduplicated and no date function is being called
NoBatch == collected = <<>> /\ call = None /\ result = None

Elsewhere == <<collected, call, result>>

---------------------------------------------------------------------------
(* ItauExtractor.extract_transactions_from_text.                           *)

\* the longest document body explored, in lines
MaxLines == 2

\* the clock's year in the explored runs
NowYear == 2026

\* first lines of a statement: a blank line, the section header alone, or
\* the due date and the section header
ItauPreambles ==
    {<<"">>,
     <<"Lançamentos: compras e saques">>,
     <<"Vencimento: 17/02/2025", "Lançamentos: compras e saques">>,
     <<"Vencimento: 15/01/2025", "Lançamentos: compras e saques">>,
     <<"Vencimento: 31/02/2025", "Lançamentos: compras e saques">>,
     <<"Vencimento: 15/01/0001", "Lançamentos: compras e saques">>}

ItauLineCatalogue ==
    {"Resumo da fatura",
     "Cartão 1234.XXXX.XXXX.5678",
     "Lançamentos no cartão (final 5678)",
     "JOAO SILVA (final 4321)",
     "05/11 ACME STORE 150,00",
     "20/01 LOJA 0,00",
     "20/01 LOJA 1.2.3",
     "20/01 R$ 10,00",
     "20/01 PADARIA",
     "20/01 R$",
     " 12,50",
     "CENTRO 8,00"}

ItauFilenames == {"fatura.pdf", "FATURA_17_02_25.pdf"}

\* the longest body explored of a document that is all markers, card headers
\* and transaction lines
MaxSectionLines == 3

\* lines of such a document: card headers, a begin marker that names a card,
\* an end marker that ends in an amount, and transaction lines with and
\* without an amount of their own
SectionLineCatalogue ==
    {"",
     "Cartão 1234.XXXX.XXXX.5678",
     "JOAO SILVA (final 4321)",
     "Lançamentos: compras e saques (final 1234)",
     "Lançamentos: compras e saques",
     "Resumo da fatura 8,00",
     "05/11 ACME STORE 150,00",
     "05/11 PAGAMENTO EFETUADO 150,00",
     "20/01 PADARIA",
     "20/01 SALDO ANTERIOR",
     " 12,50"}

\* the most transaction lines explored of a statement with a due date
MaxStatementLines == 2

\* transaction lines of a statement: an installment counter in the middle of
\* the description and as its last token, and purchases of the months around
\* the billing month
StatementLineCatalogue ==
    {"20/01 LOJA 03/06 SP 150,00",
     "20/01 LOJA PARCELADA 03/06 150,00",
     "05/11 ACME STORE 150,00",
     "20/12 LOJA 150,00",
     "20/01 LOJA 150,00",
     "05/02 LOJA 150,00"}

StatementDueDates == {"17/02/2025", "15/01/2025"}

\* a statement names its due date, opens the section and lists transactions
StatementDocuments ==
    {<<"Vencimento: " \o due, "Lançamentos: compras e saques">> \o body :
        due \in StatementDueDates,
        body \in UNION {[1..n -> StatementLineCatalogue] : n \in 1..MaxStatementLines}}

\* the documents open with a begin marker
SectionDocuments ==
    {<<"Lançamentos: compras e saques">> \o body :
        body \in UNION {[1..n -> SectionLineCatalogue] : n \in 0..MaxSectionLines}}

ItauDocuments ==
    {preamble \o body : preamble \in ItauPreambles,
                        body \in UNION {[1..n -> ItauLineCatalogue] : n \in 0..MaxLines}}

ItauInit ==
    /\ bank = "itau"
    /\ lines \in ItauDocuments
    /\ filename \in ItauFilenames
    /\ now_year = NowYear
    /\ pc = "start"
    /\ Fresh
    /\ NoBatch

\* the beginning of extract_transactions_from_text, up to the line loop.  The
\* OverflowError of calculate_billing_period leaves the function.
ItauBegin ==
    /\ bank = "itau"
    /\ pc = "start"
    /\ LET text == TextOf(lines)
           due == extract_statement_date(text)
       IN  /\ document_year' = extract_year_from_text(text, filename, now_year)
           /\ statement_date' = due
           /\ installments_info' = extract_installments_section(lines)
           /\ pc' = IF due # None /\ calculate_billing_period(due).raised
                    THEN "raised" ELSE "lines"
    /\ current_card_number' = None
    /\ in_transactions_section' = FALSE
    /\ i' = 0
    /\ transactions' = <<>>
    /\ event' = "begin"
    /\ UNCHANGED <<bank, lines, filename, now_year, Elsewhere>>

\* the checks of the loop that come before the transaction patterns, in the
\* order of the code
ItauLineKind(line) ==
    IF line = "" THEN "empty"
    ELSE IF CardSectionMatch(line) # None THEN "card_section"
    ELSE IF CardRefMatch(line) # None THEN "card_ref"
    ELSE IF PersonCardMatch(line) # None THEN "person_card"
    ELSE IF IsBeginMarker(line) THEN "begin"
    ELSE IF IsEndMarker(line) THEN "end"
    ELSE "candidate"

\* what the loop reads off a line before it looks at any other state: the
\* stripped line, the check it falls under and the two transaction patterns
ItauLineFacts ==
    [raw \in ItauLineCatalogue \cup SectionLineCatalogue \cup StatementLineCatalogue
             \cup UNION {SeqRange(p) : p \in ItauPreambles} |->
        LET line == Strip(raw)
        IN  [line |-> line,
             kind |-> ItauLineKind(line),
             one_line |-> OneLineMatch(line),
             multi_line |-> MultiLineMatch(line)]]

\* the loop is at a line
InLoop == bank = "itau" /\ pc = "lines" /\ i < Len(lines)

\* the description is too short or holds an unwanted word (one-line pattern)
ITAU_MIN_DESCRIPTION == 3
ItauSkipWords == {"FINAL", "CARTÃO", "TOTAL", "SALDO"}

ItauRejected(description) ==
    \/ Len(description) < ITAU_MIN_DESCRIPTION
    \/ \E skip \in ItauSkipWords : Contains(Upper(description), skip)

\* Transaction(...) as the Itau loop builds it.  line, date_str, path and
\* passed, passed_descriptions are not fields of the dataclass: they record
\* the line the transaction came from, its date token, the branch that built
\* it, the earlier branches that had matched the line and the descriptions
\* they had matched (none: the branches are if/elif).
ItauTransaction(date_str, description, parsed, path) ==
    [date |-> parse_itau_date(date_str, None, statement_date, description, installments_info, document_year, now_year),
     description |-> description,
     amount |-> parsed.amount,
     transaction_type |-> parsed.transaction_type,
     card_number |-> IF current_card_number # None THEN current_card_number
                     ELSE ItauExtractCardNumber(TextOf(lines), filename),
     reference |-> "Itau-" \o filename,
     line |-> i,
     date_str |-> date_str,
     path |-> path,
     passed |-> {},
     passed_descriptions |-> {}]

\* append the transaction when the parsed amount is positive
ItauAppendParsed(date_str, description, parsed, path) ==
    IF Positive(parsed.amount)
    THEN /\ transactions' = Append(transactions,
                               ItauTransaction(date_str, description, parsed, path))
         /\ event' = "emitted"
    ELSE /\ transactions' = transactions
         /\ event' = "no_amount"

\* parse the amount and append the transaction when the amount is positive
ItauAppend(date_str, description, amount_str, path) ==
    ItauAppendParsed(date_str, description, ItauParseAmount(amount_str), path)

ItauDocFacts == <<bank, lines, filename, now_year, pc, document_year, statement_date,
                  installments_info, Elsewhere>>

\* another loop than the code's, against which the end of the loop is tried:
\* the empty line is skipped without the index moving
SkipEmptyInPlace ==
    /\ InLoop
    /\ \E f \in {ItauLineFacts[lines[i + 1]]} : f.kind = "empty"
    /\ i' = i
    /\ event' = "empty"
    /\ UNCHANGED <<ItauDocFacts, current_card_number, in_transactions_section, transactions>>

\* a blank line: 'if not line: i += 1; continue'
ItauSkipEmpty ==
    /\ InLoop
    /\ \E f \in {ItauLineFacts[lines[i + 1]]} : f.kind = "empty"
    /\ i' = i + 1
    /\ event' = "empty"
    /\ UNCHANGED <<ItauDocFacts, current_card_number, in_transactions_section, transactions>>

ItauCardSection ==
    /\ InLoop
    /\ \E f \in {ItauLineFacts[lines[i + 1]]} :
           /\ f.kind = "card_section"
           /\ current_card_number' = "Itau-" \o CardSectionMatch(f.line)
    /\ i' = i + 1
    /\ event' = "card"
    /\ UNCHANGED <<ItauDocFacts, in_transactions_section, transactions>>

ItauCardRef ==
    /\ InLoop
    /\ \E f \in {ItauLineFacts[lines[i + 1]]} :
           /\ f.kind = "card_ref"
           /\ current_card_number' = "Itau-XXXX.XXXX.XXXX." \o CardRefMatch(f.line)
    /\ i' = i + 1
    /\ event' = "card"
    /\ UNCHANGED <<ItauDocFacts, in_transactions_section, transactions>>

ItauPersonCard ==
    /\ InLoop
    /\ \E f \in {ItauLineFacts[lines[i + 1]]} :
           /\ f.kind = "person_card"
           /\ current_card_number' = "Itau-XXXX.XXXX.XXXX." \o PersonCardMatch(f.line)
    /\ i' = i + 1
    /\ event' = "card"
    /\ UNCHANGED <<ItauDocFacts, in_transactions_section, transactions>>

ItauEnterSection ==
    /\ InLoop
    /\ \E f \in {ItauLineFacts[lines[i + 1]]} : f.kind = "begin"
    /\ in_transactions_section' = TRUE
    /\ i' = i + 1
    /\ event' = "enter"
    /\ UNCHANGED <<ItauDocFacts, current_card_number, transactions>>

ItauLeaveSection ==
    /\ InLoop
    /\ \E f \in {ItauLineFacts[lines[i + 1]]} : f.kind = "end"
    /\ in_transactions_section' = FALSE
    /\ i' = i + 1
    /\ event' = "leave"
    /\ UNCHANGED <<ItauDocFacts, current_card_number, transactions>>

\* a line outside a transactions section is passed over
ItauOutside ==
    /\ InLoop
    /\ \E f \in {ItauLineFacts[lines[i + 1]]} : f.kind = "candidate"
    /\ ~in_transactions_section
    /\ i' = i + 1
    /\ event' = "outside"
    /\ UNCHANGED <<ItauDocFacts, current_card_number, in_transactions_section, transactions>>

\* Pattern 1: the full transaction on one line
ItauOneLine ==
    /\ InLoop
    /\ in_transactions_section
    /\ \E f \in {ItauLineFacts[lines[i + 1]]} :
           /\ f.kind = "candidate"
           /\ f.one_line.matched
           /\ \E description \in {clean_description(f.one_line.description)} :
                  IF ItauRejected(description)
                  THEN transactions' = transactions /\ event' = "rejected"
                  ELSE ItauAppend(f.one_line.date_str, description,
                                  f.one_line.amount_str, "one_line")
    /\ i' = i + 1
    /\ UNCHANGED <<ItauDocFacts, current_card_number, in_transactions_section>>

\* another loop than the code's, against which the section tracker is tried:
\* Pattern 2 looks at the next line whether or not a section is open
LooksAheadAnywhere(f) ==
    /\ f.kind = "candidate"
    /\ ~f.one_line.matched
    /\ f.multi_line.matched
    /\ i + 1 < Len(lines)

\* Pattern 2 takes the branch with a next line to look at, f being the facts
\* of the line
ItauLooksAhead(f) ==
    /\ f.kind = "candidate"
    /\ in_transactions_section
    /\ ~f.one_line.matched
    /\ f.multi_line.matched
    /\ i + 1 < Len(lines)

\* Pattern 2, the next line is just an amount: the line is consumed
ItauAmountOnNextLine ==
    /\ InLoop
    /\ \E f \in {ItauLineFacts[lines[i + 1]]} :
           /\ ItauLooksAhead(f)
           /\ \E next_line \in {ItauLineFacts[lines[i + 2]].line} :
                  /\ IsAmountOnly(next_line)
                  /\ \E description \in {clean_description(f.multi_line.description_part)} :
                         IF Len(description) >= ITAU_MIN_DESCRIPTION
                         THEN ItauAppend(f.multi_line.date_str, description, next_line,
                                         "amount_next")
                         ELSE transactions' = transactions /\ event' = "rejected"
    /\ i' = i + 2
    /\ UNCHANGED <<ItauDocFacts, current_card_number, in_transactions_section>>

\* continued_line = description_part + " " + next_line
ContinuedLine(f, next_line) == f.multi_line.description_part \o " " \o next_line

\* the transaction of a continued line whose trailing amount starts at at
ItauAppendContinued(date_str, continued_line, at, description) ==
    IF Len(description) >= ITAU_MIN_DESCRIPTION
    THEN ItauAppend(date_str, description, From(continued_line, at), "continued")
    ELSE transactions' = transactions /\ event' = "rejected"

\* Pattern 2, the next line continues the description and ends in an amount:
\* the line is consumed
ItauContinued ==
    /\ InLoop
    /\ \E f \in {ItauLineFacts[lines[i + 1]]} :
           /\ ItauLooksAhead(f)
           /\ \E next_line \in {ItauLineFacts[lines[i + 2]].line} :
                  /\ ~IsAmountOnly(next_line)
                  /\ ~StartsWithDate(next_line) /\ Len(next_line) > 0
                  /\ \E continued_line \in {ContinuedLine(f, next_line)} :
                         \E at \in {TrailingAmountStart(continued_line)} :
                             /\ at # 0
                             /\ ItauAppendContinued(f.multi_line.date_str, continued_line, at,
                                    clean_description(Strip(Sub(continued_line, 1, at - 1))))
    /\ i' = i + 2
    /\ UNCHANGED <<ItauDocFacts, current_card_number, in_transactions_section>>

\* the next line neither is an amount nor continues the line of facts f
ItauNoContinuation(f, next_line) ==
    /\ ~IsAmountOnly(next_line)
    /\ \/ StartsWithDate(next_line)
       \/ Len(next_line) = 0
       \/ TrailingAmountStart(ContinuedLine(f, next_line)) = 0

\* a line in the section that no branch turns into a transaction
ItauNoMatch ==
    /\ InLoop
    /\ in_transactions_section
    /\ \E f \in {ItauLineFacts[lines[i + 1]]} :
           /\ f.kind = "candidate"
           /\ ~f.one_line.matched
           /\ IF f.multi_line.matched /\ i + 1 < Len(lines)
              THEN ItauNoContinuation(f, ItauLineFacts[lines[i + 2]].line)
              ELSE TRUE
    /\ i' = i + 1
    /\ event' = "no_match"
    /\ UNCHANGED <<ItauDocFacts, current_card_number, in_transactions_section, transactions>>

\* the loop is over: validate_installment_detection only logs, and the list
\* is returned
ItauFinish ==
    /\ bank = "itau"
    /\ pc = "lines"
    /\ i >= Len(lines)
    /\ pc' = "done"
    /\ event' = "returned"
    /\ UNCHANGED <<bank, lines, filename, now_year, document_year, statement_date,
                   installments_info, current_card_number, in_transactions_section, i,
                   transactions, Elsewhere>>

ItauNext ==
    \/ ItauBegin
    \/ ItauSkipEmpty
    \/ ItauCardSection
    \/ ItauCardRef
    \/ ItauPersonCard
    \/ ItauEnterSection
    \/ ItauLeaveSection
    \/ ItauOutside
    \/ ItauOneLine
    \/ ItauAmountOnNextLine
    \/ ItauContinued
    \/ ItauNoMatch
    \/ ItauFinish

SpecItau == ItauInit /\ [][ItauNext]_vars

\* the same loop over the documents of markers and card headers
SectionInit ==
    /\ bank = "itau"
    /\ lines \in SectionDocuments
    /\ filename = "fatura.pdf"
    /\ now_year = NowYear
    /\ pc = "start"
    /\ Fresh
    /\ NoBatch

SpecSections == SectionInit /\ [][ItauNext]_vars

\* the control of extract_transactions_from_text moves: to the loop or out of
\* the function, or to another line
ItauTurn ==
    /\ bank = "itau"
    /\ pc \in {"start", "lines"}
    /\ pc' \in {"lines", "done", "raised"}
    /\ i' \in 0..Len(lines)

\* the same runs with the call scheduled: extract_transactions_from_text is
\* one sequential call, so while it has not returned its control goes on
\* moving.  Which way it moves is left to ItauNext.
SpecLoop == SectionInit /\ [][ItauNext]_vars /\ WF_<<pc, i>>(ItauTurn)

\* two documents without a due date, with card headers, markers and lines
\* that take their amount from the next line
UndatedDocuments ==
    {<<"", "Cartão 1234.XXXX.XXXX.5678", "Lançamentos: compras e saques",
       "05/11 ACME STORE 150,00", "20/01 PADARIA", " 12,50", "Resumo da fatura", "20/01 R$">>,
     <<"Lançamentos no cartão (final 5678)", "JOAO SILVA (final 4321)",
       "Lançamentos: compras e saques", "05/11 ACME STORE 150,00", "20/01 PADARIA",
       "CENTRO 8,00", "20/01 R$">>}

\* the same loop over the statements with a due date, and over the two
\* documents without one
StatementInit ==
    /\ bank = "itau"
    /\ lines \in StatementDocuments \cup UndatedDocuments
    /\ filename = "fatura.pdf"
    /\ now_year = NowYear
    /\ pc = "start"
    /\ Fresh
    /\ NoBatch

SpecStatement == StatementInit /\ [][ItauNext]_vars

---------------------------------------------------------------------------
(* InterExtractor.extract_transactions_from_text.                          *)

InterLineCatalogue ==
    {"03 de out. 2024 LOJA - R$ 10,00",
     "03 de xyz. 2024 LOJA - R$ 10,00",
     "01-02-2024 LOJA 12,50",
     "2024-02-01 LOJA 12,50",
     "03 de out. 2024 R$ - R$ 10,00",
     "03 de out. 2024 LOJA - R$ 0,00",
     "03 de out. 2024 LOJA R$ 5,00 - R$ 0,00",
     "03 de out. 2024 LOJA - R$ 1.2.3",
     "03 de out. 2024 VALOR TOTAL - R$ 10,00",
     "CARTÃO 1234****5678",
     "1234****5678 03 de nov. 2025 MERCADO R$ 5,00",
     "01-02-2024 PAGAMENTO -12,50",
     "Vencimento 10/11/2024",
     ""}

InterFilenames == {"fatura.pdf", "inter_2024.pdf"}

\* text.split('\n') has at least one line
InterDocuments == UNION {[1..n -> InterLineCatalogue] : n \in 1..MaxLines}

InterInit ==
    /\ bank = "inter"
    /\ lines \in InterDocuments
    /\ filename \in InterFilenames
    /\ now_year = NowYear
    /\ pc = "start"
    /\ Fresh
    /\ NoBatch

\* the beginning of extract_transactions_from_text, up to the line loop; the
\* re.error of extract_document_year leaves the function
InterBegin ==
    /\ bank = "inter"
    /\ pc = "start"
    /\ LET found == extract_document_year(lines, filename)
       IN  /\ document_year' = found.year
           /\ pc' = IF found.raised THEN "raised" ELSE "lines"
    /\ current_card_number' = None
    /\ i' = 0
    /\ transactions' = <<>>
    /\ event' = "begin"
    /\ UNCHANGED <<bank, lines, filename, now_year, statement_date, installments_info,
                   in_transactions_section, Elsewhere>>

INTER_MIN_DESCRIPTION == 3
InterHeaderWords == {"DATA", "VALOR", "DESCRIÇÃO", "TOTAL"}

\* the description is too short or looks like a header
InterRejected(description) ==
    \/ Len(description) < INTER_MIN_DESCRIPTION
    \/ \E header \in InterHeaderWords : Contains(Upper(description), header)

\* what one turn of the loop over self.transaction_patterns does with a
\* match: "no_match", "rejected" and "no_amount" go on to the next pattern,
\* "emit" appends the transaction and breaks
InterPatternOutcome(m) ==
    IF ~m.matched THEN "no_match"
    ELSE IF InterRejected(m.description) THEN "rejected"
    ELSE IF ~Positive(InterParseAmount(m.amount_str).amount) THEN "no_amount"
    ELSE "emit"

\* what the loop reads off a line before it looks at any other state: the two
\* card checks, the match of each pattern and what its turn does with it
InterFactsOf(line, match) ==
    [line |-> line,
     card_section |-> InterCardSectionMatch(line),
     card_line |-> InterCardLineMatch(line),
     match |-> match,
     outcome |-> [p \in 1..NumberOfPatterns |-> InterPatternOutcome(match[p])]]

\* the facts of a stripped line
InterStrippedFacts(line) ==
    InterFactsOf(line, [p \in 1..NumberOfPatterns |-> InterPatternMatch(p, line)])

\* line = line.strip(), for every line a document can hold
InterLineFacts == [raw \in InterLineCatalogue |-> InterStrippedFacts(Strip(raw))]

\* the loop is at a line
InterInLoop == bank = "inter" /\ pc = "lines" /\ i < Len(lines)

\* the patterns whose turn ends in an append, f being the facts of the line
InterEmitting(f) == {p \in 1..NumberOfPatterns : f.outcome[p] = "emit"}

\* current_card_number after the check for a card at the start of the line
InterCardAfterLine(f) ==
    IF f.card_line # None THEN f.card_line ELSE current_card_number

\* current_card_number or self.extract_card_number(text, filename)
InterCardOf(card) ==
    IF card # None /\ card # "" THEN card
    ELSE InterExtractCardNumber(TextOf(lines), filename)

\* Transaction(...) as the Inter loop builds it from the match m of pattern
\* p.  line, date_str, path, passed and passed_descriptions are not fields of
\* the dataclass: they record the line the transaction came from, its date
\* token, the pattern that built it, the earlier patterns that matched the
\* line and the descriptions they matched.
InterTransaction(f, p, m, parsed) ==
    [date |-> parse_brazilian_date(m.date_str, document_year, now_year),
     description |-> m.description,
     amount |-> parsed.amount,
     transaction_type |->
         determine_transaction_type(m.description, parsed.amount, parsed.transaction_type),
     card_number |-> InterCardOf(InterCardAfterLine(f)),
     reference |-> "Inter-" \o filename,
     line |-> i,
     date_str |-> m.date_str,
     path |-> "pattern" \o IntStr(p),
     passed |-> {q \in 1..(p - 1) : f.match[q].matched},
     passed_descriptions |-> {f.match[q].description : q \in {r \in 1..(p - 1) : f.match[r].matched}}]

InterDocFacts == <<bank, lines, filename, now_year, pc, document_year, statement_date,
                   installments_info, in_transactions_section, Elsewhere>>

InterSkipEmpty ==
    /\ InterInLoop
    /\ \E f \in {InterLineFacts[lines[i + 1]]} : f.line = ""
    /\ i' = i + 1
    /\ event' = "empty"
    /\ UNCHANGED <<InterDocFacts, current_card_number, transactions>>

\* a card section header: the card becomes the active one
InterCardSection ==
    /\ InterInLoop
    /\ \E f \in {InterLineFacts[lines[i + 1]]} :
           /\ f.line # ""
           /\ f.card_section # None
           /\ current_card_number' = f.card_section
    /\ i' = i + 1
    /\ event' = "card"
    /\ UNCHANGED <<InterDocFacts, transactions>>

\* the first pattern whose turn reaches the append builds the transaction
InterEmit ==
    /\ InterInLoop
    /\ \E f \in {InterLineFacts[lines[i + 1]]} :
           /\ f.line # ""
           /\ f.card_section = None
           /\ InterEmitting(f) # {}
           /\ current_card_number' = InterCardAfterLine(f)
           /\ \E p \in {SetMin(InterEmitting(f))} :
                  \E m \in {f.match[p]} :
                      transactions' = Append(transactions,
                          InterTransaction(f, p, m, InterParseAmount(m.amount_str)))
    /\ i' = i + 1
    /\ event' = "emitted"
    /\ UNCHANGED InterDocFacts

\* no pattern's turn reaches the append
InterNoTransaction ==
    /\ InterInLoop
    /\ \E f \in {InterLineFacts[lines[i + 1]]} :
           /\ f.line # ""
           /\ f.card_section = None
           /\ InterEmitting(f) = {}
           /\ current_card_number' = InterCardAfterLine(f)
           /\ event' = IF \E p \in 1..NumberOfPatterns : f.outcome[p] = "no_amount"
                       THEN "no_amount"
                       ELSE IF \E p \in 1..NumberOfPatterns : f.outcome[p] = "rejected"
                       THEN "rejected" ELSE "no_match"
    /\ i' = i + 1
    /\ UNCHANGED <<InterDocFacts, transactions>>

InterFinish ==
    /\ bank = "inter"
    /\ pc = "lines"
    /\ i >= Len(lines)
    /\ pc' = "done"
    /\ event' = "returned"
    /\ UNCHANGED <<bank, lines, filename, now_year, document_year, statement_date,
                   installments_info, current_card_number, in_transactions_section, i,
                   transactions, Elsewhere>>

InterNext ==
    \/ InterBegin
    \/ InterSkipEmpty
    \/ InterCardSection
    \/ InterEmit
    \/ InterNoTransaction
    \/ InterFinish

SpecInter == InterInit /\ [][InterNext]_vars

\* extract_transactions_from_text of either family, on one document
Init == ItauInit \/ InterInit

Next == ItauNext \/ InterNext

Spec == Init /\ [][Next]_vars

---------------------------------------------------------------------------
(* BankStatementExtractor.process_all_files: the files of the statement    *)
(* folder go through process_single_file one after the other, with the     *)
(* one extractor that __init__ made for the bank type.                     *)

\* the most files in the statement folder
MaxFiles == 2

ItauBatchFiles ==
    {[filename |-> "fatura_2024.pdf",
      lines |-> <<"", "Cartão 1234.XXXX.XXXX.5678", "Lançamentos: compras e saques",
                  "05/11 ACME STORE 150,00", "20/01 PADARIA", " 12,50",
                  "Resumo da fatura", "20/01 R$">>],
     [filename |-> "FATURA_17_02_25.pdf",
      lines |-> <<"Lançamentos no cartão (final 5678)", "JOAO SILVA (final 4321)",
                  "Lançamentos: compras e saques", "05/11 ACME STORE 150,00",
                  "20/01 PADARIA", "CENTRO 8,00", "20/01 R$">>],
     [filename |-> "fatura.pdf",
      lines |-> <<"Vencimento: 15/01/0001", "Lançamentos: compras e saques">>],
     [filename |-> "vazia.pdf", lines |-> <<"">>]}

InterBatchFiles ==
    {[filename |-> "inter_2024.pdf",
      lines |-> <<"", "CARTÃO 1234****5678", "03 de out. 2024 LOJA - R$ 10,00",
                  "Vencimento 10/11/2024">>],
     [filename |-> "inter_2025.pdf",
      lines |-> <<"1234****5678 03 de nov. 2025 MERCADO R$ 5,00",
                  "03 de out. 2024 LOJA - R$ 10,00">>],
     [filename |-> "fatura.pdf", lines |-> <<"Vencimento 10/11/2024">>]}

\* os.listdir of the folder: the files in some order
Folders(files) == UNION {[1..n -> files] : n \in 1..MaxFiles}

\* process_all_files up to its loop: self.transactions = []
BatchInit ==
    /\ \/ bank = "itau" /\ \E pending \in Folders(ItauBatchFiles) :
                               call = [op |-> "process_all_files", pending |-> pending]
       \/ bank = "inter" /\ \E pending \in Folders(InterBatchFiles) :
                                call = [op |-> "process_all_files", pending |-> pending]
    /\ lines = <<>>
    /\ filename = ""
    /\ now_year = NowYear
    /\ pc = "batch"
    /\ Fresh
    /\ collected = <<>>
    /\ result = None

\* not text.strip()
BlankText(doc_lines) == \A k \in 1..Len(doc_lines) : Strip(doc_lines[k]) = ""

\* the call at work is process_all_files
InBatch == call.op = "process_all_files"

\* process_single_file up to the call of the extractor; a file without text
\* returns [] at once
ProcessSingleFile ==
    /\ InBatch
    /\ pc = "batch"
    /\ call.pending # <<>>
    /\ lines' = Head(call.pending).lines
    /\ filename' = Head(call.pending).filename
    /\ IF BlankText(Head(call.pending).lines)
       THEN /\ pc' = "batch"
            /\ call' = [call EXCEPT !.pending = Tail(call.pending)]
       ELSE /\ pc' = "start"
            /\ call' = call
    /\ UNCHANGED <<bank, now_year, document_year, statement_date, installments_info,
                   current_card_number, in_transactions_section, i, transactions, event,
                   collected, result>>

\* self.transactions.extend(file_transactions)
ExtendTransactions ==
    /\ InBatch
    /\ pc = "done"
    /\ collected' = collected \o transactions
    /\ call' = [call EXCEPT !.pending = Tail(call.pending)]
    /\ pc' = "batch"
    /\ UNCHANGED <<bank, lines, filename, now_year, document_year, statement_date,
                   installments_info, current_card_number, in_transactions_section, i,
                   transactions, event, result>>

\* the end of process_all_files: return self.transactions, which no
\* deduplication has touched
ProcessAllFilesReturns ==
    /\ InBatch
    /\ pc = "batch"
    /\ call.pending = <<>>
    /\ result' = collected
    /\ pc' = "batch_done"
    /\ UNCHANGED <<bank, lines, filename, now_year, document_year, statement_date,
                   installments_info, current_card_number, in_transactions_section, i,
                   transactions, event, collected, call>>

BatchNext ==
    \/ ProcessSingleFile
    \/ ItauNext
    \/ InterNext
    \/ ExtendTransactions
    \/ ProcessAllFilesReturns

SpecBatch == BatchInit /\ [][BatchNext]_vars

---------------------------------------------------------------------------
(* Two runs of extract_transactions_from_text on the one extractor that    *)
(* BankStatementExtractor holds.  Each document is first read alone; then   *)
(* the two runs go side by side: the variables hold the locals of the run  *)
(* at work, call.other those of the run that waits, and document_year is   *)
(* the field self.document_year, which both runs write and read.           *)

ParallelFiles ==
    {f \in ItauBatchFiles : f.filename \in {"fatura_2024.pdf", "FATURA_17_02_25.pdf"}}

\* the locals of a run that has not started
FreshRun(file) ==
    [lines |-> file.lines, filename |-> file.filename, pc |-> "start",
     statement_date |-> None, installments_info |-> Zero, current_card_number |-> None,
     in_transactions_section |-> FALSE, i |-> 0, transactions |-> <<>>, event |-> "none"]

\* the locals of the run at work
Locals ==
    [lines |-> lines, filename |-> filename, pc |-> pc,
     statement_date |-> statement_date, installments_info |-> installments_info,
     current_card_number |-> current_card_number,
     in_transactions_section |-> in_transactions_section, i |-> i,
     transactions |-> transactions, event |-> event]

\* the run r takes the place of the run at work
Resume(r) ==
    /\ lines' = r.lines
    /\ filename' = r.filename
    /\ pc' = r.pc
    /\ statement_date' = r.statement_date
    /\ installments_info' = r.installments_info
    /\ current_card_number' = r.current_card_number
    /\ in_transactions_section' = r.in_transactions_section
    /\ i' = r.i
    /\ transactions' = r.transactions
    /\ event' = r.event

ParallelInit ==
    /\ bank = "itau"
    /\ \E first, second \in ParallelFiles :
          /\ call = [op |-> "parallel", phase |-> "alone", files |-> <<first, second>>,
                     alone |-> <<>>, active |-> 1, other |-> FreshRun(second)]
          /\ lines = first.lines
          /\ filename = first.filename
    /\ now_year = NowYear
    /\ pc = "start"
    /\ Fresh
    /\ collected = <<>>
    /\ result = None

InParallel(phase) == call.op = "parallel" /\ call.phase = phase

\* a document read alone has returned: its transactions are kept, and the
\* second document is read alone, or the two runs start side by side
AloneReturns ==
    /\ InParallel("alone")
    /\ pc = "done"
    /\ IF call.alone = <<>>
       THEN /\ call' = [call EXCEPT !.alone = <<transactions>>]
            /\ Resume(FreshRun(call.files[2]))
       ELSE /\ call' = [call EXCEPT !.alone = Append(call.alone, transactions),
                                    !.phase = "both"]
            /\ Resume(FreshRun(call.files[1]))
    /\ UNCHANGED <<bank, now_year, document_year, collected, result>>

\* the scheduler gives the processor to the run that waits
Switch ==
    /\ InParallel("both")
    /\ call.other.pc # "done"
    /\ call' = [call EXCEPT !.active = 3 - call.active, !.other = Locals]
    /\ Resume(call.other)
    /\ UNCHANGED <<bank, now_year, document_year, collected, result>>

ParallelNext == ItauNext \/ AloneReturns \/ Switch

SpecParallel == ParallelInit /\ [][ParallelNext]_vars

---------------------------------------------------------------------------
(* ItauExtractor.parse_itau_date and calculate_billing_period, called on   *)
(* their own.                                                              *)

\* no document is being read
NoDocument ==
    /\ bank = "none"
    /\ lines = <<>>
    /\ filename = ""
    /\ now_year = NowYear
    /\ statement_date = None
    /\ installments_info = Zero
    /\ current_card_number = None
    /\ in_transactions_section = FALSE
    /\ i = 0
    /\ event = "none"

RECURSIVE ZFill(_, _)
\* str.zfill(width)
ZFill(s, width) == IF Len(s) >= width THEN s ELSE ZFill("0" \o s, width)

\* the DD/MM/YYYY string of three numbers, a real date or not
DateString(d, m, y) ==
    ZFill(IntStr(d), 2) \o "/" \o ZFill(IntStr(m), 2) \o "/" \o ZFill(IntStr(y), 4)

\* the years of the due dates handed to calculate_billing_period
DueYears == {1, 2024, 2025}

BillingCalls ==
    {[op |-> "calculate_billing_period", due_date |-> DateString(d, m, y)] :
        d \in 1..31, m \in 1..12, y \in DueYears}

ParseCalls ==
    [op : {"parse_itau_date"},
     date_str : {"20/01", "05/11", "5/3"},
     year : {None, "2023", "2026"},
     statement_date : {None, "17/02/2025", "15/01/2025", "31/02/2025", "31/03/2024",
                       "15/01/0001"},
     description : {"", "LOJA", "LOJA 03/10 SP"},
     installments_info : {Zero, <<6000, 0>>}]

\* the months of the day/month tokens handed to is_installment_transaction
TokenMonths == 1..12

\* the totals of the installments summary: none, some, the cutoff of the
\* lower threshold and a total above it
FutureTotals == {Zero, <<1500, 0>>, <<5000, 0>>, <<6000, 0>>}

InstallmentCalls ==
    [op : {"is_installment_transaction"},
     description : {"", "LOJA", "LOJA 03/10 SP"},
     date_str : {"20/" \o ZFill(IntStr(m), 2) : m \in TokenMonths},
     statement_date : {None, "17/02/2025", "15/01/2025", "31/03/2024", "31/02/2025",
                       "15/01/0001"},
     installments_info : FutureTotals]

DateInit ==
    /\ NoDocument
    /\ pc = "called"
    /\ \/ call \in BillingCalls /\ document_year = None
       \/ call \in ParseCalls /\ document_year \in {None, "2022"}
       \/ call \in InstallmentCalls /\ document_year = None
    /\ transactions = <<>>
    /\ collected = <<>>
    /\ result = None

DateFacts == <<bank, lines, filename, now_year, document_year, statement_date,
               installments_info, current_card_number, in_transactions_section, i,
               transactions, event, collected, call>>

\* calculate_billing_period(due_date) returns or raises
BillingPeriodReturns ==
    /\ pc = "called"
    /\ call.op = "calculate_billing_period"
    /\ result' = calculate_billing_period(call.due_date)
    /\ pc' = IF calculate_billing_period(call.due_date).raised THEN "raised" ELSE "returned"
    /\ UNCHANGED DateFacts

\* parse_itau_date(date_str, year, statement_date, description,
\* installments_info) returns
ParseItauDateReturns ==
    /\ pc = "called"
    /\ call.op = "parse_itau_date"
    /\ result' = parse_itau_date(call.date_str, call.year, call.statement_date,
                                 call.description, call.installments_info,
                                 document_year, now_year)
    /\ pc' = "returned"
    /\ UNCHANGED DateFacts

\* is_installment_transaction(description, date_str, statement_date,
\* installments_info) returns or raises
IsInstallmentReturns ==
    /\ pc = "called"
    /\ call.op = "is_installment_transaction"
    /\ \E verdict \in {is_installment_transaction(call.description, call.date_str,
                                                   call.statement_date,
                                                   call.installments_info)} :
           /\ result' = verdict.value
           /\ pc' = IF verdict.raised THEN "raised" ELSE "returned"
    /\ UNCHANGED DateFacts

DateNext == BillingPeriodReturns \/ ParseItauDateReturns \/ IsInstallmentReturns

SpecDate == DateInit /\ [][DateNext]_vars

---------------------------------------------------------------------------
(* ItauExtractor.extract_year_from_text and                                *)
(* InterExtractor.extract_document_year, called on their own.              *)

\* the longest text handed to the two functions, in lines
MaxYearLines == 4

\* lines of an Itau text: dates of two years, a header date, a line without
\* a year
ItauYearLines == {"Compra 05/01/2025", "Compra 10/12/2024", "Vencimento: 17/02/2025",
                  "05/11 ACME STORE 150,00"}

\* lines of an Inter text: dated lines of two years, a header date, a line
\* without a year
InterYearLines == {"03 de nov. 2025 MERCADO R$ 5,00", "03 de out. 2024 LOJA - R$ 10,00",
                   "Vencimento 10/11/2024", "Limite de credito"}

YearTexts(catalogue) == UNION {[1..n -> catalogue] : n \in 1..MaxYearLines}

ItauYearCalls ==
    [op : {"extract_year_from_text"}, lines : YearTexts(ItauYearLines),
     filename : {"fatura.pdf", "FATURA_17_02_25.pdf"}]

InterYearCalls ==
    [op : {"extract_document_year"}, lines : YearTexts(InterYearLines),
     filename : {"fatura.pdf", "fatura-inter-2025.pdf"}]

YearInit ==
    /\ NoDocument
    /\ pc = "called"
    /\ call \in ItauYearCalls \cup InterYearCalls
    /\ document_year = None
    /\ transactions = <<>>
    /\ collected = <<>>
    /\ result = None

\* extract_year_from_text(text, filename) returns
ExtractYearFromTextReturns ==
    /\ pc = "called"
    /\ call.op = "extract_year_from_text"
    /\ result' = extract_year_from_text(TextOf(call.lines), call.filename, now_year)
    /\ pc' = "returned"
    /\ UNCHANGED DateFacts

\* extract_document_year(text, filename) returns or raises
ExtractDocumentYearReturns ==
    /\ pc = "called"
    /\ call.op = "extract_document_year"
    /\ \E found \in {extract_document_year(call.lines, call.filename)} :
           /\ result' = found.year
           /\ pc' = IF found.raised THEN "raised" ELSE "returned"
    /\ UNCHANGED DateFacts

YearNext == ExtractYearFromTextReturns \/ ExtractDocumentYearReturns

SpecYear == YearInit /\ [][YearNext]_vars

---------------------------------------------------------------------------
(* BankStatementExtractor.deduplicate_transactions, called on a list and   *)
(* then on its own output.                                                 *)

\* the longest list deduplicated
MaxTransactions == 3

DedupInit ==
    /\ NoDocument
    /\ pc = "collected"
    /\ document_year = None
    /\ collected \in UNION {[1..n -> TransactionPool] : n \in 0..MaxTransactions}
    /\ transactions = <<>>
    /\ call = None
    /\ result = <<>>

DedupFacts == <<bank, lines, filename, now_year, document_year, statement_date,
                installments_info, current_card_number, in_transactions_section, i,
                event, collected, call>>

\* deduplicate_transactions(collected)
Deduplicate ==
    /\ pc = "collected"
    /\ result' = deduplicate_transactions(collected, now_year).deduplicated
    /\ pc' = IF deduplicate_transactions(collected, now_year).raised
             THEN "raised" ELSE "deduplicated"
    /\ UNCHANGED <<DedupFacts, transactions>>

\* deduplicate_transactions on the list the first call returned
DeduplicateAgain ==
    /\ pc = "deduplicated"
    /\ transactions' = deduplicate_transactions(result, now_year).deduplicated
    /\ pc' = IF deduplicate_transactions(result, now_year).raised
             THEN "raised" ELSE "repeated"
    /\ UNCHANGED <<DedupFacts, result>>

DedupNext == Deduplicate \/ DeduplicateAgain

SpecDedup == DedupInit /\ [][DedupNext]_vars

---------------------------------------------------------------------------
(* Properties of the extraction runs.                                      *)

\* the minimum description length of the family at work
MinimumDescription ==
    IF bank = "itau" THEN ITAU_MIN_DESCRIPTION ELSE INTER_MIN_DESCRIPTION

\* what the turn of pattern q did with the line the transaction t came from
TurnOutcome(t, q) == InterLineFacts[lines[t.line + 1]].outcome[q]

\* C1: every emitted transaction has an amount above zero, and a line with a
\* pattern match whose amount parsed to zero or less produced no transaction.
C1_NonPositiveAmountSkipsLine ==
    \A k \in 1..Len(transactions) :
        /\ transactions[k].amount[1] > 0
        /\ \A q \in transactions[k].passed : TurnOutcome(transactions[k], q) # "no_amount"

\* C2: every emitted transaction carries a date of the form DD/MM/YYYY, never
\* the raw date token of its line.
C2_DatesResolved ==
    \A k \in 1..Len(transactions) :
        /\ Len(transactions[k].date) = 10
        /\ IsDDMMYYYYAt(transactions[k].date, 1)

\* C4: in an Itau document with a due date, every transaction that
\* is_installment_transaction classifies as an installment is dated at the
\* due date exactly.
C4_InstallmentsAtDueDate ==
    (bank = "itau" /\ statement_date # None) =>
        \A k \in 1..Len(transactions) :
            is_installment_transaction(transactions[k].description, transactions[k].date_str,
                                       statement_date, installments_info).value
                => transactions[k].date = statement_date

\* an installment of November, by the month distance, is emitted on the
\* statement due 17/02/2025 and dated at the due date
C4_InstallmentEmitted ==
    /\ bank = "itau"
    /\ pc = "done"
    /\ statement_date = "17/02/2025"
    /\ \E k \in 1..Len(transactions) :
           /\ transactions[k].date_str = "05/11"
           /\ transactions[k].description = "ACME STORE"
           /\ is_installment_transaction("ACME STORE", "05/11", statement_date,
                                         installments_info).value
           /\ transactions[k].date = "17/02/2025"

\* C8: a line yields at most one transaction, and the transaction comes from
\* the first pattern of the cascade that matched the line.
C8_FirstMatchingPatternOnly ==
    /\ \A k \in 1..Len(transactions) : transactions[k].passed = {}
    /\ \A j \in 1..Len(transactions) :
           \A k \in 1..Len(transactions) :
               j # k => transactions[j].line # transactions[k].line

\* C9: no transaction comes from a line on which a pattern matched a
\* description shorter than the minimum description length.
C9_ShortDescriptionNeverEmits ==
    \A k \in 1..Len(transactions) :
        /\ Len(transactions[k].description) >= MinimumDescription
        /\ \A d \in transactions[k].passed_descriptions : Len(d) >= MinimumDescription

\* C10: extract_transactions_from_text never raises, whatever the text and the
\* file name.
C10_NeverRaises == pc # "raised"

---------------------------------------------------------------------------
(* Properties of the date functions.                                       *)

\* the day and the month of a day/month token, as numbers' strings
TokenDay(date_str) == Sub(date_str, 1, SlashAt(date_str) - 1)
TokenMonth(date_str) == From(date_str, SlashAt(date_str) + 1)

\* C3: with an explicit year, parse_itau_date returns DD/MM/<that year>, day
\* and month zero-padded, whatever the due date, the description, the
\* installments summary and the document year.
C3_ExplicitYearWins ==
    (pc = "returned" /\ call.op = "parse_itau_date" /\ call.year # None) =>
        result = ZFill(TokenDay(call.date_str), 2) \o "/"
                 \o ZFill(TokenMonth(call.date_str), 2) \o "/" \o call.year

\* the day before a date, by the calendar
DayBefore(date) ==
    IF date.day > 1 THEN [date EXCEPT !.day = date.day - 1]
    ELSE IF date.month > 1
    THEN [day |-> DaysInMonth(date.year, date.month - 1), month |-> date.month - 1,
          year |-> date.year]
    ELSE [day |-> 31, month |-> 12, year |-> date.year - 1]

RECURSIVE DaysBack(_, _)
\* the date n days before a date
DaysBack(date, n) == IF n = 0 THEN date ELSE DaysBack(DayBefore(date), n - 1)

\* the three numbers of a DD/MM/YYYY string
NumbersOf(date) ==
    [day |-> DigitsValue(Sub(date, 1, 2)), month |-> DigitsValue(Sub(date, 4, 5)),
     year |-> DigitsValue(Sub(date, 7, 10))]

\* the DD/MM/YYYY string names a day of the calendar
RealDate(date) == ValidDate(NumbersOf(date).year, NumbersOf(date).month, NumbersOf(date).day)

\* the call of parse_itau_date is for a transaction that is not an installment
NotInstallment ==
    ~is_installment_transaction(call.description, call.date_str, call.statement_date,
                                call.installments_info).value

\* C5: calculate_billing_period returns the month and the year of the day 30
\* days before the due date, and (None, None), without raising, for a due date
\* that is no day of the calendar; a transaction that is not an installment
\* is dated <line day>/<line month>/<billing year>.
C5_BillingPeriodThirtyDaysBack ==
    /\ (pc \in {"returned", "raised"} /\ call.op = "calculate_billing_period") =>
           /\ pc = "returned"
           /\ IF RealDate(call.due_date)
              THEN /\ result.month = DaysBack(NumbersOf(call.due_date), 30).month
                   /\ result.year = DaysBack(NumbersOf(call.due_date), 30).year
              ELSE result.month = 0 /\ result.year = 0
    /\ (/\ pc = "returned" /\ call.op = "parse_itau_date"
        /\ call.year = None /\ call.statement_date # None
        /\ RealDate(call.statement_date)
        /\ NotInstallment) =>
           result = ZFill(TokenDay(call.date_str), 2) \o "/"
                    \o ZFill(TokenMonth(call.date_str), 2) \o "/"
                    \o IntStr(DaysBack(NumbersOf(call.statement_date), 30).year)

---------------------------------------------------------------------------
(* Properties of the deduplicator.                                         *)

\* C6: deduplicate_transactions is idempotent: run on its own output it
\* returns that output, same transactions in the same order.
C6_Idempotent == pc = "repeated" => transactions = result

\* the second run follows a first run that merged transactions
C6_RepeatedAfterMerge ==
    /\ pc = "repeated"
    /\ Len(result) < Len(collected)
    /\ Len(result) >= 2

\* the positions of the list whose transaction has the DedupKey of t
SameKey(list, t) ==
    {j \in 1..Len(list) : ThreeParts(list[j].date) /\ DedupKey(list[j]) = DedupKey(t)}

\* the years of the sane window found at the positions members of the list
SaneYears(list, members) ==
    {YearOf(list[j]) : j \in {h \in members : MIN_PLAUSIBLE_YEAR <= YearOf(list[h])
                                              /\ YearOf(list[h]) <= now_year}}

\* exactly two years, one the year after the other
Consecutive(years) == \E y \in years : years = {y, y + 1}

C11_NoTransactionLost ==
    pc \in {"deduplicated", "repeated"} =>
        \A k \in 1..Len(collected) :
            \/ \E h \in 1..Len(result) : result[h] = collected[k]
            \/ /\ ThreeParts(collected[k].date)
               /\ \E h \in SameKey(result, collected[k]) :
                      \E j \in 1..Len(collected) : result[h] = collected[j]

\* the members of the list with the DedupKey of t whose year lies in the sane
\* window
SaneMembers(list, t) ==
    {j \in SameKey(list, t) : MIN_PLAUSIBLE_YEAR <= YearOf(list[j]) /\ YearOf(list[j]) <= now_year}

\* C24: in a DedupKey group of two or more, the transaction kept has its year
\* in the sane window when a member has; when none has, the first-seen member
\* is kept; a group of one passes through unchanged
C24_SaneWindowDecides ==
    pc = "deduplicated" =>
        \A k \in 1..Len(collected) :
            ThreeParts(collected[k].date) =>
                \E members \in {SameKey(collected, collected[k])} :
                    /\ Cardinality(SameKey(result, collected[k])) = 1
                    /\ \A h \in SameKey(result, collected[k]) :
                           IF Cardinality(members) = 1 THEN result[h] = collected[k]
                           ELSE IF SaneMembers(collected, collected[k]) # {}
                           THEN \E j \in SaneMembers(collected, collected[k]) :
                                    result[h] = collected[j]
                           ELSE result[h] = collected[SetMin(members)]

\* a 2019 transaction stands before its 2027 and 2025 twins: the 2025 one is
\* kept
C24_OutsideWindowDropped ==
    /\ pc = "deduplicated"
    /\ collected = <<AcmeOn("05/11/2019"), AcmeOn("05/11/2027"), AcmeOn("05/11/2025")>>
    /\ result = <<AcmeOn("05/11/2025")>>

\* no member of the group is in the window: the first-seen one is kept
C24_FirstSeenKept ==
    /\ pc = "deduplicated"
    /\ collected = <<AcmeOn("05/11/2027"), AcmeOn("05/11/2019")>>
    /\ result = <<AcmeOn("05/11/2027")>>

\* C25: the deduplicator merges only transactions of different years: two
\* transactions of the input with the same DedupKey and the same year are
\* both in the output
C25_SameYearNotMerged ==
    pc = "deduplicated" =>
        \A j, k \in 1..Len(collected) :
            (/\ j < k
             /\ ThreeParts(collected[j].date) /\ ThreeParts(collected[k].date)
             /\ DedupKey(collected[j]) = DedupKey(collected[k])
             /\ YearPart(collected[j].date) = YearPart(collected[k].date)) =>
                \E g, h \in 1..Len(result) :
                    g # h /\ result[g] = collected[j] /\ result[h] = collected[k]

---------------------------------------------------------------------------
(* Properties of the batch.                                                *)

\* C12: what process_all_files returns holds no two transactions that have
\* the same DedupKey (day, month, normalized description, amount) and
\* different years.
C12_BatchIsDeduplicated ==
    pc = "batch_done" =>
        \A j, k \in 1..Len(result) :
            (/\ ThreeParts(result[j].date) /\ ThreeParts(result[k].date)
             /\ DedupKey(result[j]) = DedupKey(result[k]))
                => YearPart(result[j].date) = YearPart(result[k].date)

---------------------------------------------------------------------------
(* Properties of the card number and of the sections.                      *)

\* the transaction that a step has just appended
Appended == transactions'[Len(transactions')]

\* C13: every emitted transaction has a card_number that is not empty; a
\* transaction appended while a card is active carries that card; the
\* transactions emitted while no card header has been seen carry one and the
\* same default.
C13_CardNumberNeverEmpty ==
    /\ [](\A k \in 1..Len(transactions) : transactions[k].card_number \notin {"", None})
    /\ [](current_card_number = None =>
             \A j, k \in 1..Len(transactions) :
                 transactions[j].card_number = transactions[k].card_number)
    /\ [][(Len(transactions') > Len(transactions) /\ current_card_number' # None)
              => Appended.card_number = current_card_number']_vars

\* two transactions of a document without a card header
C13_TwoUnderDefault ==
    /\ pc = "done"
    /\ current_card_number = None
    /\ Len(transactions) = 2

\* C14: a run that goes side by side with another run on the same extractor
\* returns the transactions that its document gives when it is read alone.
C14_ParallelEqualsAlone ==
    (InParallel("both") /\ pc = "done") => transactions = call.alone[call.active]

\* line k of the Itau document as the loop sees it: line = line.strip()
StrippedLine(k) == ItauLineFacts[lines[k]].line

\* a begin marker stands on one of the first n lines
BeginMarkerWithin(n) == \E k \in 1..n : IsBeginMarker(StrippedLine(k))

\* C15: the Itau loop appends a transaction only while it is inside a
\* transactions section, and every transaction comes from a line after a
\* begin marker.
C15_EmittedOnlyInsideSection ==
    /\ [](bank = "itau" =>
             \A k \in 1..Len(transactions) : BeginMarkerWithin(transactions[k].line))
    /\ [][(bank = "itau" /\ Len(transactions') > Len(transactions))
              => (in_transactions_section /\ in_transactions_section')]_vars

\* a transaction has been emitted from the line after the begin marker, and
\* the section has been left since
C15_EmittedAfterBeginMarker ==
    /\ bank = "itau" /\ pc = "done"
    /\ lines = <<"Lançamentos: compras e saques", "05/11 ACME STORE 150,00",
                 "Resumo da fatura">>
    /\ ~in_transactions_section
    /\ Len(transactions) = 1
    /\ transactions[1].line = 1

\* the lines 1..n read so far hold an end marker at k and no begin marker after it
EndMarkerStands(k, n) ==
    /\ IsEndMarker(StrippedLine(k))
    /\ \A j \in (k + 1)..n : ~IsBeginMarker(StrippedLine(j))

\* C16: every Itau line that contains an end marker moves the tracker out of
\* the section, also directly after a dated line without an amount: once such
\* a line is read and no begin marker follows it, the tracker is outside and
\* no later line has produced a transaction
C16_EndMarkerLeavesSection ==
    bank = "itau" =>
        \A k \in 1..i :
            EndMarkerStands(k, i) =>
                /\ ~in_transactions_section
                /\ \A t \in 1..Len(transactions) : transactions[t].line < k

\* a line the one-line pattern turns into a transaction when the section is open
WellFormedLine(raw) ==
    \E f \in {ItauLineFacts[raw]} :
        /\ f.kind = "candidate"
        /\ f.one_line.matched
        /\ ~ItauRejected(clean_description(f.one_line.description))
        /\ Positive(ItauParseAmount(f.one_line.amount_str).amount)

\* C17: every Itau line that contains a begin marker moves the tracker into
\* the section, also when the line names a card: right after such a line the
\* tracker is inside, and a well-formed transaction line directly after it
\* has produced a transaction
C17_BeginMarkerEntersSection ==
    bank = "itau" =>
        \A k \in 1..i :
            IsBeginMarker(StrippedLine(k)) =>
                /\ k = i => in_transactions_section
                /\ (k < i /\ WellFormedLine(lines[k + 1])) =>
                       \E t \in 1..Len(transactions) : transactions[t].line = k

\* the tag an Itau card header line carries, None for any other line: the
\* three header shapes in the order of the loop
ItauHeaderTag(raw) ==
    LET f == ItauLineFacts[raw]
    IN  CASE f.kind = "card_section" -> "Itau-" \o CardSectionMatch(f.line)
          [] f.kind = "card_ref" -> "Itau-XXXX.XXXX.XXXX." \o CardRefMatch(f.line)
          [] f.kind = "person_card" -> "Itau-XXXX.XXXX.XXXX." \o PersonCardMatch(f.line)
          [] OTHER -> None

\* line k of the Itau document is a card header
IsItauHeader(k) ==
    ItauLineFacts[lines[k]].kind \in {"card_section", "card_ref", "person_card"}

\* transaction t took text from line k: it was built at line k, or at the
\* line before k together with the line after it
TookTextFrom(t, k) ==
    \/ t.line = k - 1
    \/ t.line = k - 2 /\ t.path \in {"amount_next", "continued"}

\* C18: a card header line always records the new active card and never
\* produces, or contributes text to, a transaction: an Itau header line that
\* has just been read has set current_card_number, no transaction took text
\* from it, and no Inter transaction comes from a line that starts with a
\* card number
C18_HeaderRecordsTagOnly ==
    /\ bank = "itau" =>
           \A k \in 1..i :
               IsItauHeader(k) =>
                   /\ k = i => current_card_number = ItauHeaderTag(lines[k])
                   /\ \A t \in 1..Len(transactions) : ~TookTextFrom(transactions[t], k)
    /\ bank = "inter" =>
           \A t \in 1..Len(transactions) :
               InterLineFacts[lines[transactions[t].line + 1]].card_line = None

\* the first pattern of the cascade that matches the Inter line of facts f,
\* 0 when none does
FirstMatching(f) ==
    IF \E p \in 1..NumberOfPatterns : f.match[p].matched
    THEN SetMin({p \in 1..NumberOfPatterns : f.match[p].matched})
    ELSE 0

\* the first matching pattern's description is rejected or its amount is not
\* positive
FirstMatchRejected(f) ==
    /\ FirstMatching(f) # 0
    /\ f.outcome[FirstMatching(f)] \in {"rejected", "no_amount"}

\* C19: a content-based rejection ends the handling of the line: an Inter
\* line whose first matching pattern yields a rejected description or an
\* amount that is not positive produces no transaction
C19_RejectionEndsLine ==
    bank = "inter" =>
        \A k \in 1..i :
            FirstMatchRejected(InterLineFacts[lines[k]]) =>
                \A t \in 1..Len(transactions) : transactions[t].line # k - 1

\* the description holds one of the words
HoldsWord(description, words) ==
    \E word \in words : Contains(Upper(description), word)

\* C20: no transaction whose description holds a boilerplate word of its
\* family is ever emitted, on any path: FINAL, CARTÃO, TOTAL or SALDO for
\* Itau, DATA, VALOR, DESCRIÇÃO or TOTAL for Inter
C20_NoBoilerplateDescription ==
    \A t \in 1..Len(transactions) :
        /\ bank = "itau" => ~HoldsWord(transactions[t].description, ItauSkipWords)
        /\ bank = "inter" => ~HoldsWord(transactions[t].description, InterHeaderWords)

---------------------------------------------------------------------------
(* Properties of the polarity, the installments and the document year.     *)

\* self.credit_keywords and self.debit_keywords of ItauExtractor, which no
\* code of the extractor reads
ItauCreditKeywords == {"PAGAMENTO", "CREDITO", "ESTORNO", "DEVOLUÇÃO"}
ItauDebitKeywords == {"COMPRA", "SAQUE", "ANUIDADE", "JUROS", "MULTA", "IOF", "ENCARGO"}

\* the pattern of the Inter cascade that built the transaction t
PatternOf(t) == CHOOSE p \in 1..NumberOfPatterns : t.path = "pattern" \o IntStr(p)

\* the amount token of the Inter transaction t, as its pattern matched it
InterAmountToken(t) == InterLineFacts[lines[t.line + 1]].match[PatternOf(t)].amount_str

\* the token carries a sign marker: a '-' in front, or parentheses around it
SignMarked(token) ==
    \/ StartsAt(Strip(token), 1, "-")
    \/ StartsAt(Strip(token), 1, "(") /\ EndsWith(Strip(token), ")")

\* the polarity of the layered rule: the keyword sets when there is no sign
\* marker, credit looked up first, and debit when neither set applies
PolarityByKeywords(description, credit, debit) ==
    IF HoldsWord(description, credit) THEN "credit"
    ELSE IF HoldsWord(description, debit) THEN "debit"
    ELSE "debit"

\* C21: the polarity of a transaction follows the layered rule.  An Itau
\* amount token is a run of digits, dots and commas and never carries a sign,
\* so the keywords decide and debit is the default; an Inter amount with a
\* sign marker is a debit whatever the description says, and without one the
\* keywords decide and debit is the default
C21_PolarityLayered ==
    \A t \in 1..Len(transactions) :
        /\ bank = "itau" =>
               transactions[t].transaction_type =
                   PolarityByKeywords(transactions[t].description,
                                      ItauCreditKeywords, ItauDebitKeywords)
        /\ bank = "inter" =>
               transactions[t].transaction_type =
                   IF SignMarked(InterAmountToken(transactions[t])) THEN "debit"
                   ELSE PolarityByKeywords(transactions[t].description,
                                           credit_keywords, debit_keywords)

\* the month of the day 30 days before the due date of the call, by the
\* calendar
BillingMonthOfCall == DaysBack(NumbersOf(call.statement_date), 30).month

\* d: the wrapped month distance from the month of the call's token to the
\* billing month, 0..11
WrappedDistance == (BillingMonthOfCall - DigitsValue(TokenMonth(call.date_str))) % 12

\* T: 2, and 1 when the installments summary reports a total above the cutoff
ThresholdOfCall == IF GreaterThan(call.installments_info, 5000) THEN 1 ELSE 2

\* the call is for a description without an NN/NN token, on a due date that
\* has a day 30 days before it
MonthDistanceCase ==
    /\ call.op = "is_installment_transaction"
    /\ call.description # "" /\ ~HasInstallmentPattern(call.description)
    /\ call.statement_date # None /\ RealDate(call.statement_date)
    /\ NumbersOf(call.statement_date).year > 1

C22_LoweredThreshold ==
    /\ pc = "returned" /\ MonthDistanceCase
    /\ call.date_str = "20/12" /\ call.statement_date = "17/02/2025"
    /\ call.installments_info = <<6000, 0>>
    /\ result = TRUE

\* the description of the line the Itau transaction t was built from, as the
\* one-line pattern matched it, before any cleaning
MatchedDescription(t) == ItauLineFacts[lines[t.line + 1]].one_line.description

\* C23: in an Itau document with a due date, every transaction whose line
\* holds a two-digit/two-digit pair in its description text is dated at the
\* due date, wherever in the description the pair stands
C23_CounterDatedAtDueDate ==
    (bank = "itau" /\ statement_date # None) =>
        \A t \in 1..Len(transactions) :
            (/\ transactions[t].path = "one_line"
             /\ HasInstallmentPattern(MatchedDescription(transactions[t])))
                => transactions[t].date = statement_date

\* the call of one of the two year functions has ended, and the file name
\* gave no year
YearCallEnded ==
    /\ pc \in {"returned", "raised"}
    /\ call.op \in {"extract_year_from_text", "extract_document_year"}
    /\ IF call.op = "extract_year_from_text"
       THEN ItauFilenameYear(call.filename) = None
       ELSE InterFilenameYear(call.filename) = None

\* the years the scan of the text of the call collected
YearsOfCall ==
    IF call.op = "extract_year_from_text"
    THEN YearsFound(TextOf(call.lines), InContextYears(TextOf(call.lines)))
    ELSE InterTransactionYears(call.lines, 1)

\* the earliest of the years counted at least 0.8 times the highest count
DominantYear(years) ==
    LET count(y) == Cardinality({k \in 1..Len(years) : years[k] = y})
        highest == SetMax({count(y) : y \in SeqRange(years)})
    IN  IntStr(SetMin({DigitsValue(y) : y \in {z \in SeqRange(years) : 10 * count(z) >= 8 * highest}}))

\* C26: when the file name gives no year, the year hint is the dominant year
\* of the text, the most frequent one or the earliest of those comparably
\* frequent, in both families; and the year before the current one when the
\* text holds no year.
C26_DominantYearHint ==
    YearCallEnded =>
        /\ pc = "returned"
        /\ result = IF YearsOfCall = <<>> THEN IntStr(now_year - 1)
                    ELSE DominantYear(YearsOfCall)

---------------------------------------------------------------------------
(* Properties of the line loop of the Itau extractor.                      *)

\* an iteration of the line loop: the index moves forward by one line or by
\* two, and never beyond the end of the lines
LoopStep ==
    (bank = "itau" /\ pc = "lines" /\ pc' = "lines") =>
        /\ i' \in {i + 1, i + 2}
        /\ i' <= Len(lines')

\* C27: the line loop of the Itau extractor ends on every document: each
\* iteration moves the index forward by one or two, so no line is visited
\* twice and there are at most as many iterations as lines, and the function
\* returns.
C27_LineLoopTerminates ==
    /\ [][LoopStep]_vars
    /\ (bank = "itau" /\ pc = "lines") ~> (pc = "done" /\ i = Len(lines))

\* the function returned after an iteration that consumed the last two lines
C27_TwoLinesConsumedAtEnd ==
    /\ bank = "itau"
    /\ pc = "done"
    /\ i = Len(lines)
    /\ transactions # <<>>
    /\ transactions[Len(transactions)].path \in {"amount_next", "continued"}
    /\ transactions[Len(transactions)].line = Len(lines) - 2

\* the lines, by index, that went into transaction t: its own line, and the
\* following one on the two multi-line paths
LinesOf(t) == IF t.path = "one_line" THEN {t.line} ELSE {t.line, t.line + 1}

\* the k-th line, stripped, starts with a day/month token
DatedLine(k) ==
    LET line == StrippedLine(k)
    IN  /\ Len(line) >= 5
        /\ \A p \in {1, 2, 4, 5} : Ch(line, p) \in Digit
        /\ Ch(line, 3) = "/"

\* no line went into two of the transactions
NoLineSharedBetweenTransactions ==
    \A a, b \in 1..Len(transactions) :
        a # b => LinesOf(transactions[a]) \cap LinesOf(transactions[b]) = {}

\* a step of the loop that emits a transaction from two lines moves past both,
\* and a step that moves past two lines does not move past a dated second one
ConsumesWhatItSkips ==
    (bank = "itau" /\ pc = "lines" /\ pc' = "lines") =>
        /\ Len(transactions') > Len(transactions) =>
               /\ transactions'[Len(transactions')].line = i
               /\ i' = i + Cardinality(LinesOf(transactions'[Len(transactions')]))
        /\ i' = i + 2 => ~DatedLine(i + 2)

\* C28: in the Itau loop every line goes into at most one transaction: a
\* multi-line match that consumes the following line moves past it, and a
\* following line that starts with a day/month token is never consumed, so it
\* is read as a candidate of its own.
C28_LineInOneTransaction ==
    /\ [](bank = "itau" => NoLineSharedBetweenTransactions)
    /\ [][ConsumesWhatItSkips]_vars

\* a dated line that follows a multi-line match without an amount was read on
\* its own and gave, with the line after it, a transaction
C28_DatedLineReadOnItsOwn ==
    /\ bank = "itau"
    /\ \E k \in 1..Len(transactions) :
           /\ transactions[k].path \in {"amount_next", "continued"}
           /\ transactions[k].line >= 1
           /\ DatedLine(transactions[k].line)
           /\ DatedLine(transactions[k].line + 1)
           /\ ~ItauLineFacts[lines[transactions[k].line]].one_line.matched
           /\ \A j \in 1..Len(transactions) : transactions[k].line - 1 \notin LinesOf(transactions[j])

---------------------------------------------------------------------------
(* Properties of the dates of a statement with a due date.                 *)

\* a DD/MM/YYYY date as a number that orders dates
DateOrder(date) ==
    NumbersOf(date).year * 10000 + NumbersOf(date).month * 100 + NumbersOf(date).day

\* the transaction is one that is_installment_transaction takes for an
\* installment of the statement
TakenForInstallment(t) ==
    is_installment_transaction(t.description, t.date_str, statement_date,
                               installments_info).value

\* C29: in an Itau document with a valid due date no transaction is dated
\* after the due date: an installment is dated at the due date, and any other
\* transaction at its day and month in the billing year, which is not later
\* than the due date.
C29_NeverAfterDueDate ==
    (bank = "itau" /\ statement_date # None) =>
        \A k \in 1..Len(transactions) :
            /\ TakenForInstallment(transactions[k]) => transactions[k].date = statement_date
            /\ DateOrder(transactions[k].date) <= DateOrder(statement_date)

\* the line of transaction t is of the month of the due date, which is the
\* month after the billing month: later than the billing month, in the cycle
\* of the statement
LaterInCycle(t) ==
    /\ DigitsValue(TokenMonth(t.date_str)) = NumbersOf(statement_date).month
    /\ NumbersOf(statement_date).month # DaysBack(NumbersOf(statement_date), 30).month

\* C30: the month distance takes only transactions older than the billing
\* period for installments: a transaction without a counter in its
\* description, whose month is later than the billing month in the cycle of
\* the statement, is not taken for an installment and keeps its own day and
\* month.
C30_LaterMonthKeepsItsDate ==
    (bank = "itau" /\ statement_date # None) =>
        \A k \in 1..Len(transactions) :
            (/\ ~HasInstallmentPattern(transactions[k].description)
             /\ LaterInCycle(transactions[k]))
                => /\ ~TakenForInstallment(transactions[k])
                   /\ Sub(transactions[k].date, 1, 5) = transactions[k].date_str

=============================================================================
